---------------------------- MODULE Spec2Model ----------------------------
(***************************************************************************)
(* A model of libpuz (kobolabs/puz): the .PUZ checksum engine (cksum.c),   *)
(* the puzzle accessors and the solution scrambler (puzzle.c) and the      *)
(* binary and text loaders (load.c).                                       *)
(*                                                                         *)
(* Bytes are naturals in 0..255, unsigned shorts naturals in 0..65535.     *)
(* A C string is the sequence of its bytes without the terminating NUL.    *)
(* A pointer field is a sequence of length at most one: << >> is NULL and  *)
(* <<v>> points to the value v.                                            *)
(***************************************************************************)
EXTENDS Integers, Sequences, FiniteSets, TLC

VARIABLES
    puz,        \* the struct puzzle_t the calls work on
    base,       \* the caller's input buffer (bytes)
    arg,        \* the scalar argument of the last call
    ret,        \* the value the last call returned
    out,        \* the buffer the last call returned or filled
    op,         \* the name of the last call
    prev,       \* the name of the call before it
    locals,     \* the local variables of a call that is inside its loop
    fault       \* TRUE once a call made an invalid memory access

vars == <<puz, base, arg, ret, out, op, prev, locals, fault>>

----------------------------------------------------------------------------
(* Bounds of the model                                                     *)

MaxLen == 3

MaxClues == 2

MaxLine == 4

----------------------------------------------------------------------------
(* Integer helpers                                                         *)

U16 == 65536

NULL == << >>

Ptr(v) == <<v>>

Deref(p) == p[1]

Min(a, b) == IF a < b THEN a ELSE b

Max(a, b) == IF a < b THEN b ELSE a

RECURSIVE SeqsUpTo(_, _)
SeqsUpTo(S, n) ==
    IF n = 0 THEN { << >> }
    ELSE LET shorter == SeqsUpTo(S, n - 1)
         IN  shorter \cup { Append(s, x) : s \in { t \in shorter : Len(t) = n - 1 }, x \in S }

\* F applied to the value of x, with x evaluated once
Bind(x, F(_)) == CHOOSE r \in {F(v) : v \in {x}} : TRUE

----------------------------------------------------------------------------
(* C strings and buffers.  A buffer is the sequence of the bytes allocated *)
(* for it, terminating NUL included: strdup("AB") is <<65, 66, 0>>.        *)

HasNul(buf) == \E i \in 1 .. Len(buf) : buf[i] = 0

RECURSIVE StrlenFrom(_, _)
StrlenFrom(buf, i) == IF buf[i + 1] = 0 THEN i ELSE StrlenFrom(buf, i + 1)

\* strlen: the number of bytes before the first NUL (the buffer holds one)
Sstrlen(buf) == StrlenFrom(buf, 0)

\* the bytes of the string in buf, without its NUL
CStr(buf) == SubSeq(buf, 1, Sstrlen(buf))

\* strdup: a fresh buffer of strlen + 1 bytes
Sstrdup(buf) == CStr(buf) \o <<0>>

\* strndup(buf, n): at most n bytes of the string, NUL added
Sstrndup(buf, n) == SubSeq(buf, 1, Min(Sstrlen(buf), n)) \o <<0>>

\* strlen(ptr) ends inside the buffer ptr points to
CanStrlen(ptr) == ptr # NULL /\ HasNul(Deref(ptr))

\* reading n bytes through ptr stays inside its buffer
CanRead(ptr, n) == n = 0 \/ (ptr # NULL /\ n <= Len(Deref(ptr)))

\* n bytes of value b
Fill(n, b) == [i \in 1 .. n |-> b]

B2I(b) == IF b THEN 1 ELSE 0

\* bit i of x
Bit(x, i) == (x \div (2 ^ i)) % 2

RECURSIVE XorFrom(_, _, _)
XorFrom(a, b, i) ==
    IF i = 8 THEN 0
    ELSE ((Bit(a, i) + Bit(b, i)) % 2) * (2 ^ i) + XorFrom(a, b, i + 1)

\* a ^ b on unsigned chars
Xor8(a, b) == XorFrom(a, b, 0)

----------------------------------------------------------------------------
(* puz.h: magic numbers and struct puzzle_t                                *)

FILE_MAGIC == <<65, 67, 82, 79, 83, 83, 38, 68, 79, 87, 78, 0>>

VER_MAGIC == <<49, 46, 50, 0>>

MAGIC_10_MASK == <<73, 67, 72, 69>>

MAGIC_14_MASK == <<65, 84, 69, 68>>

MAX_REBUS_SIZE == 100

----------------------------------------------------------------------------
(* puzzle.c: construction and accessors                                    *)

\* memset(puz, 0, sizeof) then magic, version and x_unk_30
puz_init ==
    [ header |-> [ cksum_puz |-> 0, magic |-> FILE_MAGIC, cksum_cib |-> 0,
                   magic_10 |-> <<0, 0, 0, 0>>, magic_14 |-> <<0, 0, 0, 0>>,
                   magic_18 |-> VER_MAGIC, scrambled_cksum |-> 0,
                   width |-> 0, height |-> 0, clue_count |-> 0,
                   x_unk_30 |-> 1, scrambled_tag |-> 0 ],
      calc_cksum_puzcib |-> 0,
      calc_cksums |-> <<0, 0, 0, 0>>,
      calc_magic10 |-> <<0, 0, 0, 0>>,
      calc_magic14 |-> <<0, 0, 0, 0>>,
      cib |-> <<0, 0, 0, 0, 0, 0, 0, 0>>,
      solution |-> NULL, grid |-> NULL,
      title |-> NULL, author |-> NULL, copyright |-> NULL,
      clues |-> NULL, notes |-> NULL, notes_sz |-> 0,
      grbs_cksum |-> 0, calc_grbs_cksum |-> 0, grbs |-> NULL,
      rtbl_sz |-> 0, rtbl_cksum |-> 0, calc_rtbl_cksum |-> 0, rtbl |-> NULL,
      ltim_cksum |-> 0, calc_ltim_cksum |-> 0, ltim |-> NULL,
      gext_cksum |-> 0, calc_gext_cksum |-> 0, gext |-> NULL,
      rusr_cksum |-> 0, calc_rusr_cksum |-> 0, rusr |-> NULL, rusr_sz |-> 0 ]

puz_width_get(p) == p.header.width

\* the value is an unsigned char
puz_width_set(p, val) == [p EXCEPT !.header.width = val % 256]

puz_height_get(p) == p.header.height

puz_height_set(p, val) == [p EXCEPT !.header.height = val % 256]

bd_size(p) == p.header.width * p.header.height

puz_solution_get(p) == p.solution

puz_solution_set(p, val) == [p EXCEPT !.solution = Ptr(Sstrdup(val))]

puz_grid_set(p, val) == [p EXCEPT !.grid = Ptr(Sstrdup(val))]

puz_title_set(p, val) == [p EXCEPT !.title = Ptr(Sstrdup(val))]

puz_author_set(p, val) == [p EXCEPT !.author = Ptr(Sstrdup(val))]

puz_copyright_set(p, val) == [p EXCEPT !.copyright = Ptr(Sstrdup(val))]

puz_notes_set(p, val) ==
    [p EXCEPT !.notes = Ptr(Sstrdup(val)), !.notes_sz = Sstrlen(val)]

puz_clue_count_get(p) == p.header.clue_count

\* the state after puz_clue_count_set(p, val) returned 0: an array of val NULL slots
puz_clue_count_set(p, val) ==
    [p EXCEPT !.clues = Ptr(Fill(val, NULL)), !.header.clue_count = val % U16]

\* puz_clue_count_set's return value
puz_clue_count_set_ret(p, val) ==
    IF val < 0 \/ p.header.clue_count # 0 THEN -1 ELSE 0

\* the state after puz_clear_clues returned 0
puz_clear_clues(p) == [p EXCEPT !.clues = NULL, !.header.clue_count = 0]

puz_clear_clues_ret(p) == IF p.clues = NULL THEN -1 ELSE 0

\* the state after puz_clue_set(p, n, val) passed its argument check
puz_clue_set(p, n, val) ==
    [p EXCEPT !.clues = Ptr([Deref(p.clues) EXCEPT ![n + 1] = Ptr(Sstrdup(val))])]

puz_has_rebus(p) == p.grbs # NULL

puz_has_timer(p) == p.ltim # NULL

puz_has_extras(p) == p.gext # NULL

puz_has_rusr(p) == p.rusr # NULL

puz_rebus_count_get(p) == IF ~puz_has_rebus(p) THEN 0 ELSE p.rtbl_sz

\* calloc(size + 1) and memcpy of size bytes of val
puz_rebus_set(p, val) ==
    [p EXCEPT !.grbs = Ptr(SubSeq(val, 1, bd_size(p)) \o <<0>>)]

puz_extras_set(p, val) ==
    [p EXCEPT !.gext = Ptr(SubSeq(val, 1, bd_size(p)) \o <<0>>)]

\* an array of val NULL slots; the previous table is not released
puz_rebus_count_set(p, val) ==
    [p EXCEPT !.rtbl = Ptr(Fill(val, NULL)), !.rtbl_sz = val]

\* the state after puz_clear_rtbl returned 0
puz_clear_rtbl(p) ==
    [p EXCEPT !.rtbl = NULL, !.rtbl_sz = 0, !.rtbl_cksum = 0, !.calc_rtbl_cksum = 0]

\* the number of bytes c among the first n bytes of s
RECURSIVE CountByte(_, _, _)
CountByte(s, n, c) ==
    IF n = 0 THEN 0 ELSE CountByte(s, n - 1, c) + B2I(s[n] = c)

\* the offset of the first byte c in s at or after offset i, or -1 (strchr)
RECURSIVE IndexOf(_, _, _)
IndexOf(s, i, c) ==
    IF i >= Len(s) THEN -1
    ELSE IF s[i + 1] = c THEN i
    ELSE IndexOf(s, i + 1, c)

\* the split loop of puz_rtblstr_set: entry i runs from start to the next ';'
RECURSIVE rtblstr_split(_, _, _, _)
rtblstr_split(val, start, i, n) ==
    IF i >= n THEN << >>
    ELSE LET end == IndexOf(val, start, 59)
         IN  <<Ptr(SubSeq(val, start + 1, end) \o <<0>>)>>
                 \o rtblstr_split(val, end + 1, i + 1, n)

\* val is a C string; the table gets one entry for each ';' in it
puz_rtblstr_set(p, val) ==
    LET p1 == IF p.rtbl # NULL THEN puz_clear_rtbl(p) ELSE p
        sz == CountByte(val, Sstrlen(val), 59)
        p2 == puz_rebus_count_set(p1, sz)
    IN  [p2 EXCEPT !.rtbl = Ptr(rtblstr_split(CStr(val), 0, 0, sz))]

\* a join that leaves out the ';' behind the last entry
RECURSIVE rtblstr_join_separated(_, _)
rtblstr_join_separated(tbl, i) ==
    IF i > Len(tbl) THEN << >>
    ELSE CStr(Deref(tbl[i])) \o (IF i < Len(tbl) THEN <<59>> ELSE << >>)
             \o rtblstr_join_separated(tbl, i + 1)

\* every entry followed by ';', then the terminating NUL
RECURSIVE rtblstr_join(_, _)
rtblstr_join(tbl, i) ==
    IF i > Len(tbl) THEN << >>
    ELSE CStr(Deref(tbl[i])) \o <<59>> \o rtblstr_join(tbl, i + 1)

puz_rtblstr_get(p) ==
    (IF p.rtbl_sz = 0 THEN << >> ELSE rtblstr_join(SubSeq(Deref(p.rtbl), 1, p.rtbl_sz), 1))
        \o <<0>>

\* puz_rtblstr_get reads rtbl_sz entries, each a C string
CanRtblstr(p) ==
    p.rtbl_sz = 0 \/
        /\ p.rtbl # NULL
        /\ p.rtbl_sz <= Len(Deref(p.rtbl))
        /\ \A i \in 1 .. p.rtbl_sz : CanStrlen(Deref(p.rtbl)[i])

\* the decimal digits of n >= 0, as ASCII bytes ("%d")
RECURSIVE Dec(_)
Dec(n) == IF n < 10 THEN <<48 + n>> ELSE Dec(n \div 10) \o <<48 + (n % 10)>>

\* 5 + floor(log10(elapsed)) for elapsed >= 1
timer_size(elapsed) == 5 + (Len(Dec(elapsed)) - 1)

\* log10 of a value <= 0 is no finite number: the size is no valid allocation
\* size and the store to ltim[size - 1] is outside any buffer
timer_set_faults(elapsed) == elapsed <= 0

\* calloc(size), snprintf of at most size - 1 bytes of "elapsed,stopped"
puz_timer_set(p, elapsed, stopped) ==
    LET size == timer_size(elapsed)
        text == Dec(elapsed) \o <<44>> \o Dec(stopped)
        kept == SubSeq(text, 1, Min(Len(text), size - 1))
    IN  [p EXCEPT !.ltim = Ptr(kept \o Fill(size - Len(kept), 0))]

\* the state after puz_clear_rusr returned 0
puz_clear_rusr(p) ==
    [p EXCEPT !.rusr = NULL, !.rusr_sz = 0, !.rusr_cksum = 0, !.calc_rusr_cksum = 0]

\* the sum of the string lengths of the non-NULL entries of a board of pointers
RECURSIVE rusr_strlens(_, _)
rusr_strlens(board, i) ==
    IF i > Len(board) THEN 0
    ELSE (IF board[i] = NULL THEN 0 ELSE Sstrlen(Deref(board[i])))
             + rusr_strlens(board, i + 1)

\* a setter that counts one byte per square and no entry
puz_rusr_set_squares_only(p, val) ==
    LET p1 == IF p.rusr # NULL THEN puz_clear_rusr(p) ELSE p
        puz_sz == bd_size(p1)
        rusr == [i \in 1 .. puz_sz |->
                    IF val[i] = NULL THEN NULL
                    ELSE Ptr(Sstrndup(Deref(val[i]), MAX_REBUS_SIZE))]
    IN  [p1 EXCEPT !.rusr = Ptr(rusr), !.rusr_sz = puz_sz]

\* val is an array of width * height pointers, NULL for a square without entry
puz_rusr_set(p, val) ==
    LET p1 == IF p.rusr # NULL THEN puz_clear_rusr(p) ELSE p
        puz_sz == bd_size(p1)
        rusr == [i \in 1 .. puz_sz |->
                    IF val[i] = NULL THEN NULL
                    ELSE Ptr(Sstrndup(Deref(val[i]), MAX_REBUS_SIZE))]
    IN  [p1 EXCEPT !.rusr = Ptr(rusr), !.rusr_sz = puz_sz + rusr_strlens(rusr, 1)]

\* the bytes puz_rusrstr_get writes: per square the entry and a NUL, or a NUL
RECURSIVE rusrstr_bytes(_, _, _)
rusrstr_bytes(board, j, board_sz) ==
    IF j >= board_sz THEN << >>
    ELSE (IF board[j + 1] = NULL THEN <<0>> ELSE CStr(Deref(board[j + 1])) \o <<0>>)
             \o rusrstr_bytes(board, j + 1, board_sz)

puz_rusrstr_get(p) == rusrstr_bytes(Deref(p.rusr), 0, bd_size(p))

\* puz_rusrstr_get reads width * height entries and fills exactly the rusr_sz
\* bytes it allocated, which rusr_gen then reads
CanRusrstr(p) ==
    /\ p.rusr # NULL
    /\ bd_size(p) <= Len(Deref(p.rusr))
    /\ \A j \in 1 .. bd_size(p) :
          Deref(p.rusr)[j] = NULL \/ CanStrlen(Deref(p.rusr)[j])
    /\ Len(puz_rusrstr_get(p)) = p.rusr_sz

puz_is_locked_get(p) == p.header.scrambled_tag

puz_locked_cksum_get(p) == p.header.scrambled_cksum

\* puz_lock_set whose unlock branch leaves the stored checksum in place
puz_lock_set_keeps_cksum(p, cksum) ==
    IF cksum # 0
    THEN [p EXCEPT !.header.scrambled_tag = 4, !.header.scrambled_cksum = cksum]
    ELSE [p EXCEPT !.header.scrambled_tag = 0]

puz_lock_set(p, cksum) ==
    IF cksum # 0
    THEN [p EXCEPT !.header.scrambled_tag = 4, !.header.scrambled_cksum = cksum]
    ELSE [p EXCEPT !.header.scrambled_tag = 0, !.header.scrambled_cksum = 0]

----------------------------------------------------------------------------
(* cksum.c: puz_cksum_region                                               *)

\* one iteration of the loop body: rotate right into an unsigned short, add the byte
cksum_step_nowrap(cksum, b) ==
    (IF cksum % 2 = 1 THEN (cksum \div 2) + 32768 ELSE cksum \div 2) + b

\* the accumulator is an unsigned short: the step is a function on 0 .. 65535
cksum_step(cksum, b) ==
    [c \in 0 .. U16 - 1 |->
        ((IF c % 2 = 1 THEN ((c \div 2) + 32768) % U16 ELSE c \div 2) + b) % U16][cksum]

RECURSIVE cksum_loop(_, _, _, _)
cksum_loop(mem, i, len, cksum) ==
    IF i < len THEN cksum_loop(mem, i + 1, len, cksum_step(cksum, mem[i + 1]))
    ELSE cksum

\* puz_cksum_region that starts from 0 whatever initial value it is given
puz_cksum_region_from_zero(mem, len, cksum) == cksum_loop(mem, 0, len, 0)

\* puz_cksum_region(base, len, cksum) over the first len bytes of mem
puz_cksum_region(mem, len, cksum) == cksum_loop(mem, 0, len, cksum)

\* puz_cksum_cib: the 8 CIB bytes from 0
puz_cksum_cib(p) == puz_cksum_region(p.cib, 8, 0)

\* a string with its NUL, only when it is not empty
cksum_strz_nonul(ptr, cksum) ==
    IF Sstrlen(Deref(ptr)) > 0
    THEN puz_cksum_region(Deref(ptr), Sstrlen(Deref(ptr)), cksum)
    ELSE cksum

cksum_strz(ptr, cksum) ==
    IF Sstrlen(Deref(ptr)) > 0
    THEN puz_cksum_region(Deref(ptr), Sstrlen(Deref(ptr)) + 1, cksum)
    ELSE cksum

\* the clue loop: every clue without its NUL
RECURSIVE cksum_clues(_, _, _)
cksum_clues(p, i, cksum) ==
    IF i < p.header.clue_count
    THEN LET clue == Deref(Deref(p.clues)[i + 1])
         IN  cksum_clues(p, i + 1, puz_cksum_region(clue, Sstrlen(clue), cksum))
    ELSE cksum

puz_cksum(p, cksum) ==
    LET puz_a == bd_size(p)
        c1 == IF puz_a = 0 THEN cksum ELSE puz_cksum_region(Deref(p.solution), puz_a, cksum)
        c2 == IF puz_a = 0 THEN c1 ELSE puz_cksum_region(Deref(p.grid), puz_a, c1)
        c3 == cksum_strz(p.title, c2)
        c4 == cksum_strz(p.author, c3)
        c5 == cksum_strz(p.copyright, c4)
        c6 == cksum_clues(p, 0, c5)
    IN  cksum_strz(p.notes, c6)

puz_cksum2(p, cksum) ==
    LET c3 == cksum_strz(p.title, cksum)
        c4 == cksum_strz(p.author, c3)
        c5 == cksum_strz(p.copyright, c4)
        c6 == cksum_clues(p, 0, c5)
    IN  cksum_strz(p.notes, c6)

magic_gen_10(sums) == [i \in 1 .. 4 |-> Xor8(sums[i] % 256, MAGIC_10_MASK[i])]

\* magic_gen_14 with the mask of magic_gen_10
magic_gen_14_mask10(sums) ==
    [i \in 1 .. 4 |-> Xor8((sums[i] \div 256) % 256, MAGIC_10_MASK[i])]

magic_gen_14(sums) == [i \in 1 .. 4 |-> Xor8((sums[i] \div 256) % 256, MAGIC_14_MASK[i])]

rtbl_gen(p) ==
    LET rtbl_str == puz_rtblstr_get(p)
    IN  puz_cksum_region(rtbl_str, Sstrlen(rtbl_str), 0)

rusr_gen(p) == puz_cksum_region(puz_rusrstr_get(p), p.rusr_sz, 0)

\* a puz_cksums_calc that keeps the CIB block it finds
cib_bytes_kept(p) == p.cib

\* w_le_8 and w_le_16 of the header values into the CIB block
cib_bytes(p) ==
    << p.header.width, p.header.height,
       p.header.clue_count % 256, (p.header.clue_count \div 256) % 256,
       p.header.x_unk_30 % 256, (p.header.x_unk_30 \div 256) % 256,
       p.header.scrambled_tag % 256, (p.header.scrambled_tag \div 256) % 256 >>

\* puz_cksums_calc dereferences these; one of them invalid is a crash
CalcFaults(p) ==
    ~ /\ CanStrlen(p.title) /\ CanStrlen(p.author)
      /\ CanStrlen(p.copyright) /\ CanStrlen(p.notes)
      /\ p.header.clue_count = 0 \/
            /\ p.clues # NULL
            /\ p.header.clue_count <= Len(Deref(p.clues))
            /\ \A i \in 1 .. p.header.clue_count : CanStrlen(Deref(p.clues)[i])
      /\ CanRead(p.solution, bd_size(p))
      /\ CanRead(p.grid, bd_size(p))
      /\ puz_has_rebus(p) => (CanRead(p.grbs, bd_size(p)) /\ CanRtblstr(p))
      /\ puz_has_timer(p) => CanStrlen(p.ltim)
      /\ puz_has_extras(p) => CanRead(p.gext, bd_size(p))
      /\ puz_has_rusr(p) => CanRusrstr(p)

\* the four region sums of calc_cksums[]: CIB, solution, grid, strings
calc_sums(p) ==
    LET bd == bd_size(p)
    IN  << puz_cksum_region(cib_bytes(p), 8, 0),
           IF bd = 0 THEN 0 ELSE puz_cksum_region(Deref(p.solution), bd, 0),
           IF bd = 0 THEN 0 ELSE puz_cksum_region(Deref(p.grid), bd, 0),
           puz_cksum2(p, 0) >>

puz_cksums_calc(p) ==
    LET bd == bd_size(p)
    IN  [p EXCEPT
            !.cib = cib_bytes(p),
            !.calc_cksum_puzcib = puz_cksum(p, puz_cksum_region(cib_bytes(p), 8, 0)),
            !.calc_cksums = calc_sums(p),
            !.calc_magic10 = magic_gen_10(calc_sums(p)),
            !.calc_magic14 = magic_gen_14(calc_sums(p)),
            !.calc_grbs_cksum =
                IF ~puz_has_rebus(p) THEN @
                ELSE IF bd = 0 THEN 0 ELSE puz_cksum_region(Deref(p.grbs), bd, 0),
            !.calc_rtbl_cksum = IF puz_has_rebus(p) THEN rtbl_gen(p) ELSE @,
            !.calc_ltim_cksum =
                IF puz_has_timer(p)
                THEN puz_cksum_region(Deref(p.ltim), Sstrlen(Deref(p.ltim)), 0)
                ELSE @,
            !.calc_gext_cksum =
                IF ~puz_has_extras(p) THEN @
                ELSE IF bd = 0 THEN 0 ELSE puz_cksum_region(Deref(p.gext), bd, 0),
            !.calc_rusr_cksum = IF puz_has_rusr(p) THEN rusr_gen(p) ELSE @]

\* the comparisons of puz_cksums_check, on a puzzle whose sums were just calculated
cksums_check_retval(p) ==
    B2I(p.header.cksum_cib # p.calc_cksums[1])
    + B2I(p.header.cksum_puz # p.calc_cksum_puzcib)
    + B2I(p.header.magic_10[1] # p.calc_magic10[1])
    + B2I(p.header.magic_10[2] # p.calc_magic10[2])
    + B2I(p.header.magic_10[3] # p.calc_magic10[3])
    + B2I(p.header.magic_10[4] # p.calc_magic10[4])
    + B2I(p.header.magic_14[1] # p.calc_magic14[1])
    + B2I(p.header.magic_14[2] # p.calc_magic14[2])
    + B2I(p.header.magic_14[3] # p.calc_magic14[3])
    + B2I(p.header.magic_14[4] # p.calc_magic14[4])
    + (IF puz_has_rebus(p)
       THEN B2I(p.grbs_cksum # p.calc_grbs_cksum) + B2I(p.rtbl_cksum # p.calc_rtbl_cksum)
       ELSE 0)
    + (IF puz_has_timer(p) THEN B2I(p.ltim_cksum # p.calc_ltim_cksum) ELSE 0)
    + (IF puz_has_extras(p) THEN B2I(p.gext_cksum # p.calc_gext_cksum) ELSE 0)
    + (IF puz_has_rusr(p) THEN B2I(p.rusr_cksum # p.calc_rusr_cksum) ELSE 0)

\* the copies of puz_cksums_commit, on a puzzle whose sums were just calculated
cksums_commit_copy_nomagic14(p) ==
    LET p1 == [p EXCEPT !.header.cksum_puz = p.calc_cksum_puzcib,
                        !.header.cksum_cib = p.calc_cksums[1],
                        !.header.magic_10 = p.calc_magic10]
        p2 == IF puz_has_rebus(p1)
              THEN [p1 EXCEPT !.grbs_cksum = p1.calc_grbs_cksum,
                              !.rtbl_cksum = p1.calc_rtbl_cksum]
              ELSE p1
        p3 == IF puz_has_timer(p2) THEN [p2 EXCEPT !.ltim_cksum = p2.calc_ltim_cksum] ELSE p2
        p4 == IF puz_has_extras(p3) THEN [p3 EXCEPT !.gext_cksum = p3.calc_gext_cksum] ELSE p3
    IN  IF puz_has_rusr(p4) THEN [p4 EXCEPT !.rusr_cksum = p4.calc_rusr_cksum] ELSE p4

cksums_commit_copy(p) ==
    LET p1 == [p EXCEPT !.header.cksum_puz = p.calc_cksum_puzcib,
                        !.header.cksum_cib = p.calc_cksums[1],
                        !.header.magic_10 = p.calc_magic10,
                        !.header.magic_14 = p.calc_magic14]
        p2 == IF puz_has_rebus(p1)
              THEN [p1 EXCEPT !.grbs_cksum = p1.calc_grbs_cksum,
                              !.rtbl_cksum = p1.calc_rtbl_cksum]
              ELSE p1
        p3 == IF puz_has_timer(p2) THEN [p2 EXCEPT !.ltim_cksum = p2.calc_ltim_cksum] ELSE p2
        p4 == IF puz_has_extras(p3) THEN [p3 EXCEPT !.gext_cksum = p3.calc_gext_cksum] ELSE p3
    IN  IF puz_has_rusr(p4) THEN [p4 EXCEPT !.rusr_cksum = p4.calc_rusr_cksum] ELSE p4

----------------------------------------------------------------------------
(* puzzle.c: the scrambler                                                 *)

\* the four decimal digits of a code
code_digits(code) ==
    <<(code \div 1000) % 10, (code \div 100) % 10, (code \div 10) % 10, code % 10>>

\* unscramble_string with the halves swapped: out[i/2] = inp[i] for even i
unscramble_string_swapped(inp) ==
    LET len == Len(inp)
        strbreak == (len + 1) \div 2
    IN  [index \in 1 .. len |->
            IF index - 1 >= strbreak THEN inp[2 * (index - 1 - strbreak) + 2]
            ELSE inp[2 * (index - 1) + 1]]

\* out[strbreak + i/2] = inp[i] for even i, out[i/2] = inp[i] for odd i
unscramble_string(inp) ==
    LET len == Len(inp)
        strbreak == len \div 2
    IN  [index \in 1 .. len |->
            IF index - 1 >= strbreak THEN inp[2 * (index - 1 - strbreak) + 1]
            ELSE inp[2 * (index - 1) + 2]]

\* unshift_string returns -1 when the string is shorter than the shift
unshift_fails(inp, shift) == Len(inp) < shift

\* the last shift characters first, then the first len - shift
unshift_string(inp, shift) ==
    SubSeq(inp, Len(inp) - shift + 1, Len(inp)) \o SubSeq(inp, 1, Len(inp) - shift)

\* the k-th cell the two nested loops visit (i outer over w, j inner over h): j*h + i
walk_index(p, k) == ((k - 1) % p.header.height) * p.header.height
                    + ((k - 1) \div p.header.height)

\* a byte read at an offset of a buffer; past the allocation the value is arbitrary
read_byte(buf, idx, junk) == IF idx < Len(buf) THEN buf[idx + 1] ELSE junk

\* the bytes the copy loop of formatted_solution stores, in order
formatted_kept(p, junk) ==
    SelectSeq([k \in 1 .. bd_size(p) |-> read_byte(Deref(p.solution), walk_index(p, k), junk)],
              LAMBDA b : b # 46)

\* size: the non-'.' cells among the first w*h bytes
formatted_size(p) == Cardinality({i \in 1 .. bd_size(p) : Deref(p.solution)[i] # 46})

\* the calloc'ed buffer of size + 1 bytes that formatted_solution returns
formatted_solution(p, junk) ==
    [k \in 1 .. formatted_size(p) + 1 |->
        IF k <= formatted_size(p) /\ k <= Len(formatted_kept(p, junk))
        THEN formatted_kept(p, junk)[k] ELSE 0]

\* formatted_solution reads past the solution buffer or writes past out[size]
formatted_faults(p, junk) ==
    \/ \E k \in 1 .. bd_size(p) : walk_index(p, k) >= Len(Deref(p.solution))
    \/ Len(formatted_kept(p, junk)) > formatted_size(p) + 1

\* one step of the write-back loop: st is the solution buffer and the read index
unformat_step(p, st, k, formatted, junk) ==
    IF read_byte(st.sol, walk_index(p, k), junk) = 46 THEN st
    ELSE [sol |-> IF walk_index(p, k) < Len(st.sol)
                  THEN [st.sol EXCEPT ![walk_index(p, k) + 1] =
                                          read_byte(formatted, st.index, junk)]
                  ELSE st.sol,
          index |-> st.index + 1]

RECURSIVE unformat_loop(_, _, _, _, _)
unformat_loop(p, st, k, formatted, junk) ==
    IF k > bd_size(p) THEN st
    ELSE Bind(unformat_step(p, st, k, formatted, junk),
              LAMBDA nx : unformat_loop(p, nx, k + 1, formatted, junk))

unformat_unlocked_sol(p, formatted, junk) ==
    [p EXCEPT !.solution =
        Ptr(unformat_loop(p, [sol |-> Deref(p.solution), index |-> 0], 1, formatted, junk).sol)]

\* the write-back reads or writes past the solution buffer, or reads past formatted
unformat_faults(p, formatted, junk) ==
    \/ \E k \in 1 .. bd_size(p) : walk_index(p, k) >= Len(Deref(p.solution))
    \/ unformat_loop(p, [sol |-> Deref(p.solution), index |-> 0], 1, formatted, junk).index
           > Len(formatted)

\* the subtraction without the wrap back into the alphabet
unlock_sub_nowrap(c, d) == (c - d + 256) % 256

\* workspace1[j] -= digits[j % 4], then += 26 when below 'A', on unsigned chars
unlock_sub(c, d) == IF (c - d + 256) % 256 < 65 THEN (c - d + 256 + 26) % 256
                    ELSE (c - d + 256) % 256

\* one pass of the loop over i: ws holds e2, workspace1 and workspace2
unlock_round(ws, digits, i) ==
    IF ws.e # 0 THEN ws
    ELSE IF unshift_fails(unscramble_string(ws.workspace1), digits[i])
    THEN [ws EXCEPT !.e = -1]
    ELSE [e |-> 0,
          workspace1 |->
              Bind(unshift_string(unscramble_string(ws.workspace1), digits[i]),
                   LAMBDA w : [j \in 1 .. Len(w) |-> unlock_sub(w[j], digits[((j - 1) % 4) + 1])]),
          workspace2 |-> unscramble_string(ws.workspace1)]

\* for (i = 3; i >= 0; i--), digits indexed from 1
RECURSIVE unlock_rounds(_, _, _)
unlock_rounds(ws, digits, i) ==
    IF i = 0 THEN ws
    ELSE Bind(unlock_round(ws, digits, i), LAMBDA nx : unlock_rounds(nx, digits, i - 1))

\* workspace2 as handed to puz_cksum_region: the non-'.' bytes of workspace1 over
\* what the last unscramble left there
unlock_cksum_input(ws) ==
    Bind(SelectSeq(ws.workspace1, LAMBDA b : b # 46),
         LAMBDA kept : kept \o SubSeq(ws.workspace2, Len(kept) + 1, Len(ws.workspace2)))

\* the workspaces after the four rounds on the string formatted_solution returned
unlock_decode(p, code, junk) ==
    Bind(CStr(formatted_solution(p, junk)),
         LAMBDA inp : unlock_rounds([e |-> 0, workspace1 |-> inp, workspace2 |-> Fill(Len(inp), 0)],
                                    code_digits(code), 4))

\* an unlock that clears the lock fields although the key was wrong
puz_unlock_solution_clears_on_wrong_key(p, code, junk) ==
    IF p.header.scrambled_tag = 0 THEN [ret |-> 1, puz |-> p]
    ELSE IF \E i \in 1 .. 4 : code_digits(code)[i] = 0 THEN [ret |-> -2, puz |-> p]
    ELSE Bind(unlock_decode(p, code, junk),
              LAMBDA ws :
                  IF ws.e # 0 THEN [ret |-> -4, puz |-> p]
                  ELSE IF puz_cksum_region(unlock_cksum_input(ws), Len(ws.workspace1), 0)
                              # p.header.scrambled_cksum
                  THEN [ret |-> 2, puz |-> puz_lock_set(p, 0)]
                  ELSE [ret |-> 0,
                        puz |-> puz_lock_set(
                                    unformat_unlocked_sol(p, ws.workspace1 \o <<0>>, junk), 0)])

\* puz_unlock_solution: the return value and the puzzle it leaves
puz_unlock_solution(p, code, junk) ==
    IF p.header.scrambled_tag = 0 THEN [ret |-> 1, puz |-> p]
    ELSE IF \E i \in 1 .. 4 : code_digits(code)[i] = 0 THEN [ret |-> -2, puz |-> p]
    ELSE Bind(unlock_decode(p, code, junk),
              LAMBDA ws :
                  IF ws.e # 0 THEN [ret |-> -4, puz |-> p]
                  ELSE IF puz_cksum_region(unlock_cksum_input(ws), Len(ws.workspace1), 0)
                              # p.header.scrambled_cksum
                  THEN [ret |-> 2, puz |-> p]
                  ELSE [ret |-> 0,
                        puz |-> puz_lock_set(
                                    unformat_unlocked_sol(p, ws.workspace1 \o <<0>>, junk), 0)])

\* the call touches memory outside its buffers
unlock_faults(p, code, junk) ==
    /\ p.header.scrambled_tag # 0
    /\ \A i \in 1 .. 4 : code_digits(code)[i] # 0
    /\ \/ formatted_faults(p, junk)
       \/ Bind(unlock_decode(p, code, junk),
               LAMBDA ws :
                   /\ ws.e = 0
                   /\ puz_cksum_region(unlock_cksum_input(ws), Len(ws.workspace1), 0)
                          = p.header.scrambled_cksum
                   /\ unformat_faults(p, ws.workspace1 \o <<0>>, junk))

----------------------------------------------------------------------------
(* The checksum primitive on its own: inputs drawn from bounded sets       *)

RegionBytes == {0, 1, 65, 127, 128, 255}

RegionIVs == {0, 1, 2, 32767, 32768, 40503, 65534, 65535}

RegionInit ==
    /\ puz = NULL
    /\ base \in SeqsUpTo(RegionBytes, MaxLen)
    /\ arg \in RegionIVs
    /\ ret = 0
    /\ op = "init"
    /\ prev = "init"
    /\ out = << >>
    /\ locals = << >>
    /\ fault = FALSE

CksumRegionCall ==
    /\ op = "init"
    /\ ret' = puz_cksum_region(base, Len(base), arg)
    /\ op' = "puz_cksum_region"
    /\ prev' = op
    /\ UNCHANGED <<puz, base, arg, out, locals, fault>>

\* the caller folds the result into the next region (as puz_cksum does)
CksumRegionChain ==
    /\ op = "puz_cksum_region"
    /\ \E b \in SeqsUpTo(RegionBytes, 1) :
          /\ base' = b
          /\ arg' = ret
          /\ ret' = puz_cksum_region(b, Len(b), ret)
    /\ op' = "puz_cksum_region again"
    /\ prev' = op
    /\ UNCHANGED <<puz, out, locals, fault>>

RegionNext == CksumRegionCall \/ CksumRegionChain

SpecRegion == RegionInit /\ [][RegionNext]_vars

RegionCalled == op \in {"puz_cksum_region", "puz_cksum_region again"}

RECURSIVE RotateRightFrom(_, _)
RotateRightFrom(x, i) ==
    IF i = 16 THEN 0
    ELSE Bit(x, (i + 1) % 16) * (2 ^ i) + RotateRightFrom(x, i + 1)

\* on a 16-bit value: bit i of the result is bit i+1 of x, and bit 15 is bit 0 of x
RotateRight16(x) == [v \in 0 .. 65535 |-> RotateRightFrom(v, 0)][x]

\* the accumulator after the first n bytes
RECURSIVE RotateAndSumTo(_, _, _)
RotateAndSumTo(bytes, n, acc) ==
    IF n = 0 THEN acc
    ELSE (RotateRight16(RotateAndSumTo(bytes, n - 1, acc)) + bytes[n]) % 65536

RotateAndSum(bytes, acc) == RotateAndSumTo(bytes, Len(bytes), acc)

\* C1: puz_cksum_region returns, for every byte sequence and every 16-bit
\* initial value, the accumulator obtained by rotating it right by one bit
\* (bit 0 moves to bit 15) and adding each byte modulo 2^16, in order; the
\* result is in 0..65535.
C1_RegionIsRotateAndSum ==
    RegionCalled =>
        /\ ret = RotateAndSum(base, arg)
        /\ ret \in 0 .. 65535

\* a call whose accumulator had its low bit set and whose addition wrapped
C1_Witness ==
    /\ op = "puz_cksum_region"
    /\ Len(base) >= 2
    /\ arg % 2 = 1
    /\ cksum_step_nowrap(arg, base[1]) >= U16

----------------------------------------------------------------------------
(* The checksum engine on a puzzle built through the accessors             *)

\* sample strings, as C string buffers
StrEmpty == <<0>>

StrT == <<84, 0>>

StrU == <<85, 86, 0>>

StrA == <<65, 0>>

StrC == <<67, 0>>

StrN == <<78, 0>>

ClueSamples == << <<97, 0>>, <<98, 99, 0>>, <<100, 0>>, <<101, 0>> >>

\* a 2 x 1 board: one letter, one black square
SolSample == <<81, 46, 0>>

GridSample == <<45, 46, 0>>

SolOther == <<46, 90, 0>>

RebusSample == <<2, 0, 0>>

RtblSample == <<32, 49, 58, 88, 89, 59, 0>>

ExtrasSample == <<0, 128, 0>>

RusrSample == << Ptr(<<72, 73, 0>>), NULL >>

RECURSIVE set_clues(_, _, _)
set_clues(p, clues, n) ==
    IF n >= Len(clues) THEN p
    ELSE set_clues(puz_clue_set(p, n, clues[n + 1]), clues, n + 1)

\* puz_init followed by the setters
Populate(title, author, copyright, notes, nclues) ==
    LET p1 == puz_height_set(puz_width_set(puz_init, 2), 1)
        p2 == puz_grid_set(puz_solution_set(p1, SolSample), GridSample)
        p3 == puz_notes_set(puz_copyright_set(puz_author_set(
                  puz_title_set(p2, title), author), copyright), notes)
    IN  IF nclues = 0 THEN p3
        ELSE set_clues(puz_clue_count_set(p3, nclues), SubSeq(ClueSamples, 1, nclues), 0)

SectionNames == {"rebus", "timer", "extras", "rusr"}

WithSections(p, S) ==
    LET p1 == IF "rebus" \in S THEN puz_rtblstr_set(puz_rebus_set(p, RebusSample), RtblSample)
              ELSE p
        p2 == IF "timer" \in S THEN puz_timer_set(p1, 12, 1) ELSE p1
        p3 == IF "extras" \in S THEN puz_extras_set(p2, ExtrasSample) ELSE p2
    IN  IF "rusr" \in S THEN puz_rusr_set(p3, RusrSample) ELSE p3

CksumsPuzzles ==
    {puz_init}
    \cup { Populate(t, a, c, n, k) :
             t \in {StrEmpty, StrT}, a \in {StrEmpty, StrA}, c \in {StrEmpty, StrC},
             n \in {StrEmpty, StrN}, k \in 0 .. Min(MaxClues, Len(ClueSamples)) }
    \cup { WithSections(Populate(StrT, StrEmpty, StrC, StrEmpty, 1), S) :
             S \in SUBSET SectionNames }

CksumsInit ==
    /\ puz \in CksumsPuzzles
    /\ base = << >>
    /\ arg = 0
    /\ ret = 0
    /\ op = "init"
    /\ prev = "init"
    /\ out = << >>
    /\ locals = << >>
    /\ fault = FALSE

\* a call that returns r and leaves the puzzle as q
Returns(name, q, r) ==
    /\ ~fault
    /\ puz' = q
    /\ ret' = r
    /\ prev' = op
    /\ op' = name
    /\ UNCHANGED <<base, arg, out, fault>>

\* a call that dies on an invalid memory access
Crashes(name) ==
    /\ ~fault
    /\ fault' = TRUE
    /\ prev' = op
    /\ op' = name
    /\ UNCHANGED <<puz, base, arg, ret, out>>

\* the one setter call of a run: on the constructed puzzle, or right after its commit
SetterTurn == prev = "init" /\ op \in {"init", "puz_cksums_commit"}

Setter(name, q) ==
    /\ SetterTurn
    /\ UNCHANGED locals
    /\ Returns(name, q, 0)

CksumsCalc ==
    /\ UNCHANGED locals
    /\ IF CalcFaults(puz) THEN Crashes("puz_cksums_calc")
       ELSE Returns("puz_cksums_calc", puz_cksums_calc(puz), 0)

CksumsCheck ==
    /\ UNCHANGED locals
    /\ IF CalcFaults(puz) THEN Crashes("puz_cksums_check")
       ELSE \E q \in {puz_cksums_calc(puz)} :
                Returns("puz_cksums_check", q, cksums_check_retval(q))

CksumsCommit ==
    /\ UNCHANGED locals
    /\ IF CalcFaults(puz) THEN Crashes("puz_cksums_commit")
       ELSE \E q \in {puz_cksums_calc(puz)} :
                Returns("puz_cksums_commit", cksums_commit_copy(q), 0)

TitleSet == \E v \in {StrEmpty, StrU} : Setter("puz_title_set", puz_title_set(puz, v))

AuthorSet == Setter("puz_author_set", puz_author_set(puz, StrA))

CopyrightSet == Setter("puz_copyright_set", puz_copyright_set(puz, StrEmpty))

NotesSet == Setter("puz_notes_set", puz_notes_set(puz, StrN))

ClueSet ==
    \E n \in 0 .. puz.header.clue_count - 1 :
        /\ puz.clues # NULL
        /\ Setter("puz_clue_set", puz_clue_set(puz, n, StrU))

SolutionSet == Setter("puz_solution_set", puz_solution_set(puz, SolOther))

GridSet == Setter("puz_grid_set", puz_grid_set(puz, SolOther))

LockSet == \E ck \in {0, 4660} : Setter("puz_lock_set", puz_lock_set(puz, ck))

RebusSet ==
    /\ bd_size(puz) <= Len(RebusSample)
    /\ Setter("puz_rebus_set", puz_rebus_set(puz, Fill(bd_size(puz), 1) \o <<0>>))

RtblstrSet == Setter("puz_rtblstr_set", puz_rtblstr_set(puz, <<49, 58, 65, 59, 50, 58, 66, 59, 0>>))

ClearRtbl == puz.rtbl # NULL /\ Setter("puz_clear_rtbl", puz_clear_rtbl(puz))

TimerSet ==
    \E elapsed \in {0, 7} :
        /\ SetterTurn
        /\ UNCHANGED locals
        /\ IF timer_set_faults(elapsed) THEN Crashes("puz_timer_set")
           ELSE Returns("puz_timer_set", puz_timer_set(puz, elapsed, 0), 0)

ExtrasSet ==
    Setter("puz_extras_set", puz_extras_set(puz, Fill(bd_size(puz), 128) \o <<0>>))

RusrSet ==
    Setter("puz_rusr_set", puz_rusr_set(puz, [i \in 1 .. bd_size(puz) |-> Ptr(<<74, 0>>)]))

ClearRusr == puz.rusr # NULL /\ Setter("puz_clear_rusr", puz_clear_rusr(puz))

CksumsNext ==
    \/ CksumsCalc \/ CksumsCheck \/ CksumsCommit
    \/ TitleSet \/ AuthorSet \/ CopyrightSet \/ NotesSet \/ ClueSet
    \/ SolutionSet \/ GridSet \/ LockSet
    \/ RebusSet \/ RtblstrSet \/ ClearRtbl \/ TimerSet \/ ExtrasSet \/ RusrSet \/ ClearRusr

SpecCksums == CksumsInit /\ [][CksumsNext]_vars

----------------------------------------------------------------------------
(* Locking, which the library leaves to the application: the inverse of    *)
(* the unlock rounds on the canonical solution                             *)

\* the k-th cell in column-major order (x outer, y inner): y*W + x
canonical_index(p, k) == ((k - 1) % p.header.height) * p.header.width
                         + ((k - 1) \div p.header.height)

canonical_solution(p) ==
    SelectSeq([k \in 1 .. bd_size(p) |-> Deref(p.solution)[canonical_index(p, k) + 1]],
              LAMBDA b : b # 46)

\* t'[L/2 + i/2] = t[i] for even i, t'[i/2] = t[i] for odd i, read backwards
scramble_string(t) ==
    [i \in 1 .. Len(t) |->
        IF (i - 1) % 2 = 0 THEN t[(Len(t) \div 2) + ((i - 1) \div 2) + 1]
        ELSE t[((i - 1) \div 2) + 1]]

\* the prefix of length k moved to the end
shift_string(t, k) == SubSeq(t, Min(k, Len(t)) + 1, Len(t)) \o SubSeq(t, 1, Min(k, Len(t)))

lock_add(c, d) == IF c + d > 90 THEN c + d - 26 ELSE c + d

lock_round(t, digits, i) ==
    scramble_string(
        shift_string([j \in 1 .. Len(t) |-> lock_add(t[j], digits[((j - 1) % 4) + 1])],
                     digits[i]))

RECURSIVE lock_rounds(_, _, _)
lock_rounds(t, digits, i) ==
    IF i > 4 THEN t
    ELSE Bind(lock_round(t, digits, i), LAMBDA nx : lock_rounds(nx, digits, i + 1))

\* the non-'.' cells up to and including the k-th of the column-major walk
canonical_rank(p, k) ==
    Cardinality({n \in 1 .. k : Deref(p.solution)[canonical_index(p, n) + 1] # 46})

\* the column-major position of the row-major cell c (from 0)
canonical_position(p, c) == (c % p.header.width) * p.header.height
                            + (c \div p.header.width) + 1

write_canonical(p, t) ==
    [c \in 1 .. Len(Deref(p.solution)) |->
        IF c <= bd_size(p) /\ Deref(p.solution)[c] # 46
        THEN t[canonical_rank(p, canonical_position(p, c - 1))]
        ELSE Deref(p.solution)[c]]

lock_solution(p, code) ==
    [p EXCEPT !.solution =
                  Ptr(write_canonical(p, lock_rounds(canonical_solution(p), code_digits(code), 1))),
              !.header.scrambled_tag = 4,
              !.header.scrambled_cksum =
                  puz_cksum_region(canonical_solution(p), Len(canonical_solution(p)), 0)]

----------------------------------------------------------------------------
(* The scrambler: boards locked with a code, then unlocked or brute-forced *)

\* boards as width, height and row-major solution
LockBoards ==
    { <<2, 2, <<65, 67, 66, 68, 0>>>>,
      <<2, 2, <<65, 46, 90, 66, 0>>>>,
      <<3, 2, <<65, 66, 67, 68, 69, 70, 0>>>>,
      <<2, 3, <<65, 66, 67, 68, 69, 70, 0>>>>,
      <<3, 3, <<65, 66, 67, 68, 69, 70, 71, 72, 73, 0>>>> }

LockCodes == {1122, 2222}

UnlockCodes == LockCodes \cup {1011, 1123, 5555}

\* what a read past an allocation may find
JunkBytes == {0, 46, 65}

LockInit ==
    /\ \E b \in LockBoards :
          puz = puz_solution_set(puz_height_set(puz_width_set(puz_init, b[1]), b[2]), b[3])
    /\ base = << >>
    /\ arg = 0
    /\ ret = 0
    /\ out = << >>
    /\ op = "init"
    /\ prev = "init"
    /\ locals = << >>
    /\ fault = FALSE

\* the application locks the clear puzzle with a code
Lock ==
    /\ op = "init"
    /\ \E code \in LockCodes :
          /\ arg' = code
          /\ puz' = lock_solution(puz, code)
    /\ base' = Deref(puz.solution)
    /\ op' = "lock"
    /\ prev' = op
    /\ UNCHANGED <<ret, out, locals, fault>>

FormattedSolution ==
    /\ op \in {"init", "lock"}
    /\ UNCHANGED locals
    /\ \E junk \in JunkBytes :
          \/ /\ formatted_faults(puz, junk)
             /\ Crashes("formatted_solution")
          \/ /\ out' = formatted_solution(puz, junk)
             /\ base' = Deref(puz.solution)
             /\ ~fault
             /\ op' = "formatted_solution"
             /\ prev' = op
             /\ UNCHANGED <<puz, arg, ret, fault>>

\* the string formatted_solution returned, written back
UnformatUnlockedSol ==
    /\ op = "formatted_solution"
    /\ UNCHANGED locals
    /\ \E junk \in JunkBytes :
          \/ /\ unformat_faults(puz, out, junk)
             /\ Crashes("unformat_unlocked_sol")
          \/ Returns("unformat_unlocked_sol", unformat_unlocked_sol(puz, out, junk), 0)

\* one call of puz_unlock_solution with a code from codes
UnlockSolutionCall(codes) ==
    /\ \E code \in codes, junk \in JunkBytes :
          \/ /\ unlock_faults(puz, code, junk)
             /\ locals' = [code |-> code]
             /\ Crashes("puz_unlock_solution")
          \/ /\ locals' = [code |-> code]
             /\ \E r \in {puz_unlock_solution(puz, code, junk)} :
                   Returns("puz_unlock_solution", r.puz, r.ret)

UnlockSolution ==
    /\ op \in {"init", "lock"}
    /\ UnlockSolutionCall(UnlockCodes \cup {arg})

\* puz_brute_force_unlock up to the head of its loop
BruteForceEnterCall ==
    /\ IF puz.header.scrambled_tag = 0
       THEN /\ Returns("puz_brute_force_unlock", puz, -2)
            /\ UNCHANGED locals
       ELSE /\ locals' = [code |-> 1111]
            /\ op' = "puz_brute_force_unlock loop"
            /\ prev' = op
            /\ UNCHANGED <<puz, base, arg, ret, out, fault>>

BruteForceEnter ==
    /\ op \in {"init", "lock"}
    /\ BruteForceEnterCall

\* a loop that tries every other code
brute_skip(code) == code + 2

\* code++
brute_next(code) == code + 1

\* one pass of the loop: a call of puz_unlock_solution, then break or code++
BruteForceStep ==
    /\ op = "puz_brute_force_unlock loop"
    /\ locals.code < 10000
    /\ \E junk \in JunkBytes :
          \/ /\ unlock_faults(puz, locals.code, junk)
             /\ Crashes("puz_brute_force_unlock")
             /\ UNCHANGED locals
          \/ \E r \in {puz_unlock_solution(puz, locals.code, junk)} :
                IF r.ret = 0
                THEN /\ Returns("puz_brute_force_unlock", r.puz, locals.code)
                     /\ UNCHANGED locals
                ELSE /\ locals' = [code |-> brute_next(locals.code)]
                     /\ ~fault
                     /\ UNCHANGED <<puz, base, arg, ret, out, op, prev, fault>>

\* the loop ran out of codes
BruteForceFail ==
    /\ op = "puz_brute_force_unlock loop"
    /\ locals.code >= 10000
    /\ Returns("puz_brute_force_unlock", puz, -3)
    /\ UNCHANGED locals

LockNext ==
    \/ Lock \/ FormattedSolution \/ UnformatUnlockedSol \/ UnlockSolution
    \/ BruteForceEnter \/ BruteForceStep \/ BruteForceFail

SpecLock == LockInit /\ [][LockNext]_vars

----------------------------------------------------------------------------
(* load.c: the binary loader.  img is the file image (base in the source)  *)
(* and offsets count from 0; a byte read past the image has the value      *)
(* junk.  A position of the loader is the puzzle filled in so far, the     *)
(* offset i, the highest offset read so far (hi) and whether a string was  *)
(* read that never ends (run).  The noise_* header fields, which nothing   *)
(* reads back, are left out of the puzzle.                                 *)

TEXT_SUBMAGIC == 60

le_16(img, i, junk) == read_byte(img, i, junk) + 256 * read_byte(img, i + 1, junk)

\* memcpy(dest, img + i, n)
bytes_at(img, i, n, junk) == [k \in 1 .. n |-> read_byte(img, i + k - 1, junk)]

\* the offset of the NUL ending the string at img + i, inside the image or
\* right at its end
str_end(img, i) ==
    IF \E k \in i .. Len(img) - 1 : img[k + 1] = 0
    THEN CHOOSE k \in i .. Len(img) - 1 :
             img[k + 1] = 0 /\ \A m \in i .. k - 1 : img[m + 1] # 0
    ELSE Max(i, Len(img))

\* the string at img + i has no NUL in the image and none behind it
str_runs(img, i, junk) == str_end(img, i) >= Len(img) /\ junk # 0

\* Sstrdup(img + i)
str_at(img, i) == SubSeq(img, i + 1, str_end(img, i)) \o <<0>>

\* Sstrndup(img + i, n)
strn_at(img, i, n, junk) ==
    LET len == IF str_runs(img, i, junk) THEN n ELSE Min(str_end(img, i) - i, n)
    IN  bytes_at(img, i, len, junk) \o <<0>>

\* strncpy(dest, img + i, n) into a zeroed buffer of n + 1 bytes
strncpy_at(img, i, n, junk) ==
    [k \in 1 .. n + 1 |->
        IF k <= n /\ (i + k - 1 < str_end(img, i) \/ str_runs(img, i, junk))
        THEN read_byte(img, i + k - 1, junk) ELSE 0]

\* the highest offset strncpy(dest, img + i, n) reads, n > 0
strncpy_hi(img, i, n, junk) ==
    IF str_runs(img, i, junk) THEN i + n - 1 ELSE Min(str_end(img, i), i + n - 1)

Pos(p, i, hi, run) == [puz |-> p, i |-> i, hi |-> hi, run |-> run]

read_puz_head(img, junk) ==
    [ cksum_puz |-> le_16(img, 0, junk),
      magic |-> bytes_at(img, 2, 12, junk),
      cksum_cib |-> le_16(img, 14, junk),
      magic_10 |-> bytes_at(img, 16, 4, junk),
      magic_14 |-> bytes_at(img, 20, 4, junk),
      magic_18 |-> bytes_at(img, 24, 4, junk),
      scrambled_cksum |-> le_16(img, 30, junk),
      width |-> read_byte(img, 44, junk),
      height |-> read_byte(img, 45, junk),
      clue_count |-> le_16(img, 46, junk),
      x_unk_30 |-> le_16(img, 48, junk),
      scrambled_tag |-> le_16(img, 50, junk) ]

\* a section reader's result: the puzzle, the bytes read (0 on an error)
Section(p, advance, hi, run) == [puz |-> p, advance |-> advance, hi |-> hi, run |-> run]

\* a pointer to released memory: not NULL, and none of its bytes can be read
Freed == Ptr(<< >>)

RECURSIVE rbssum(_, _)
rbssum(grbs, n) == IF n = 0 THEN 0 ELSE rbssum(grbs, n - 1) + grbs[n]

\* the highest offset Sstrncmp(img + i, tag, 4) reads
strncmp_hi(img, i, tag, junk) ==
    IF \E k \in 0 .. 3 : read_byte(img, i + k, junk) # tag[k + 1]
    THEN i + CHOOSE k \in 0 .. 3 :
                 /\ read_byte(img, i + k, junk) # tag[k + 1]
                 /\ \A m \in 0 .. k - 1 : read_byte(img, i + m, junk) = tag[m + 1]
    ELSE i + 3

\* load_grbs_bin that keeps a rebus grid of zero bytes
load_grbs_bin_keeps_zeros(st, img, off, junk) ==
    LET bd_sz == bd_size(st.puz)
        grbs == bytes_at(img, off + 2, bd_sz, junk)
        i == 2 + bd_sz + 1
        sum == rbssum(grbs, bd_sz)
        p1 == [st.puz EXCEPT !.grbs_cksum = le_16(img, off, junk),
                             !.grbs = Ptr(grbs)]
        hi1 == Max(st.hi, strncmp_hi(img, off + i, <<82, 84, 66, 76>>, junk))
    IN  IF bytes_at(img, off + i, 4, junk) # <<82, 84, 66, 76>>
        THEN IF sum # 0
             THEN Section([p1 EXCEPT !.grbs = Freed], 0, hi1, st.run)
             ELSE Section(p1, i, hi1, st.run)
        ELSE LET rtbl_strsz == le_16(img, off + i + 4, junk)
             IN  IF sum # 0
                 THEN Section(puz_rtblstr_set(
                                  [p1 EXCEPT !.rtbl_cksum = le_16(img, off + i + 6, junk)],
                                  str_at(img, off + i + 8)),
                              i + 8 + rtbl_strsz + 1,
                              Max(st.hi, str_end(img, off + i + 8)),
                              st.run \/ str_runs(img, off + i + 8, junk))
                 ELSE Section(p1, i + 8 + rtbl_strsz + 1, Max(st.hi, off + i + 5), st.run)

\* the section's bytes start at img + off
load_grbs_bin(st, img, off, junk) ==
    LET bd_sz == bd_size(st.puz)
        grbs == bytes_at(img, off + 2, bd_sz, junk)
        i == 2 + bd_sz + 1
        sum == rbssum(grbs, bd_sz)
        p1 == [st.puz EXCEPT !.grbs_cksum = le_16(img, off, junk),
                             !.grbs = IF sum = 0 THEN NULL ELSE Ptr(grbs)]
        hi1 == Max(st.hi, strncmp_hi(img, off + i, <<82, 84, 66, 76>>, junk))
    IN  IF bytes_at(img, off + i, 4, junk) # <<82, 84, 66, 76>>
        THEN IF sum # 0
             THEN Section([p1 EXCEPT !.grbs = Freed], 0, hi1, st.run)
             ELSE Section(p1, i, hi1, st.run)
        ELSE LET rtbl_strsz == le_16(img, off + i + 4, junk)
             IN  IF sum # 0
                 THEN Section(puz_rtblstr_set(
                                  [p1 EXCEPT !.rtbl_cksum = le_16(img, off + i + 6, junk)],
                                  str_at(img, off + i + 8)),
                              i + 8 + rtbl_strsz + 1,
                              Max(st.hi, str_end(img, off + i + 8)),
                              st.run \/ str_runs(img, off + i + 8, junk))
                 ELSE Section(p1, i + 8 + rtbl_strsz + 1, Max(st.hi, off + i + 5), st.run)

load_ltim_bin(st, img, off, ltim_sz, junk) ==
    Section([st.puz EXCEPT !.ltim_cksum = le_16(img, off, junk),
                           !.ltim = Ptr(strncpy_at(img, off + 2, ltim_sz, junk))],
            2 + ltim_sz + 1,
            Max(st.hi, IF ltim_sz = 0 THEN off + 1
                       ELSE strncpy_hi(img, off + 2, ltim_sz, junk)),
            st.run)

load_gext_bin(st, img, off, junk) ==
    LET bd_sz == bd_size(st.puz)
    IN  Section([st.puz EXCEPT !.gext_cksum = le_16(img, off, junk),
                               !.gext = Ptr(bytes_at(img, off + 2, bd_sz, junk))],
                2 + bd_sz + 1, Max(st.hi, off + 1 + bd_sz), st.run)

\* the loop over the squares of load_rusr_bin: the entries read from square j
\* on with i at img + off, and the value of i after the last square
RECURSIVE rusr_cells(_, _, _, _, _)
rusr_cells(img, off, j, bd_sz, junk) ==
    IF j >= bd_sz THEN [cells |-> << >>, i |-> off, hi |-> off - 1]
    ELSE IF read_byte(img, off, junk) # 0
    THEN LET usr_rebus == strn_at(img, off, MAX_REBUS_SIZE, junk)
             rest == rusr_cells(img, off + Sstrlen(usr_rebus) + 1, j + 1, bd_sz, junk)
         IN  [cells |-> <<Ptr(usr_rebus)>> \o rest.cells, i |-> rest.i,
              hi |-> Max(rest.hi, IF Sstrlen(usr_rebus) = MAX_REBUS_SIZE
                                  THEN off + MAX_REBUS_SIZE - 1
                                  ELSE off + Sstrlen(usr_rebus))]
    ELSE LET rest == rusr_cells(img, off + 1, j + 1, bd_sz, junk)
         IN  [cells |-> <<NULL>> \o rest.cells, i |-> rest.i, hi |-> Max(rest.hi, off)]

load_rusr_bin(st, img, off, junk) ==
    Bind(rusr_cells(img, off + 2, 0, bd_size(st.puz), junk), LAMBDA r :
         Section([st.puz EXCEPT !.rusr_cksum = le_16(img, off, junk),
                                !.rusr = Ptr(r.cells),
                                !.rusr_sz = r.i - off - 2],
                 r.i - off + 1, Max(st.hi, Max(off + 1, r.hi)), st.run))

\* memset, read_puz_head and the copy of the cib
load_head(img, junk) ==
    Pos([puz_init EXCEPT !.header = read_puz_head(img, junk),
                         !.cib = bytes_at(img, 44, 8, junk)],
        52, 51, FALSE)

\* the solution and the grid
load_board(st, img, junk) ==
    LET bd_sz == bd_size(st.puz)
    IN  Pos([st.puz EXCEPT !.solution = Ptr(strncpy_at(img, st.i, bd_sz, junk)),
                           !.grid = Ptr(strncpy_at(img, st.i + bd_sz, bd_sz, junk))],
            st.i + 2 * bd_sz,
            IF bd_sz = 0 THEN st.hi
            ELSE Max(st.hi, strncpy_hi(img, st.i + bd_sz, bd_sz, junk)),
            st.run)

\* field = Sstrdup(img + i); i += Sstrlen(field) + 1
load_string(st, field, img, junk) ==
    Pos([st.puz EXCEPT ![field] = Ptr(str_at(img, st.i))],
        str_end(img, st.i) + 1,
        Max(st.hi, str_end(img, st.i)),
        st.run \/ str_runs(img, st.i, junk))

\* a clue loop that does not look at sz
RECURSIVE load_clues_unbounded(_, _, _, _, _)
load_clues_unbounded(st, j, img, sz, junk) ==
    IF j < st.puz.header.clue_count
    THEN Bind(Pos([st.puz EXCEPT !.clues =
                       Ptr([Deref(@) EXCEPT ![j + 1] = Ptr(str_at(img, st.i))])],
                  str_end(img, st.i) + 1,
                  Max(st.hi, str_end(img, st.i)),
                  st.run \/ str_runs(img, st.i, junk)),
              LAMBDA nx : load_clues_unbounded(nx, j + 1, img, sz, junk))
    ELSE [st |-> st, j |-> j]

\* the clue loop from clue j on; a slot the loop does not reach stays as
\* malloc left it, which the model writes NULL
RECURSIVE load_clues(_, _, _, _, _)
load_clues(st, j, img, sz, junk) ==
    IF st.i < sz /\ j < st.puz.header.clue_count
    THEN Bind(Pos([st.puz EXCEPT !.clues =
                       Ptr([Deref(@) EXCEPT ![j + 1] = Ptr(str_at(img, st.i))])],
                  str_end(img, st.i) + 1,
                  Max(st.hi, str_end(img, st.i)),
                  st.run \/ str_runs(img, st.i, junk)),
              LAMBDA nx : load_clues(nx, j + 1, img, sz, junk))
    ELSE [st |-> st, j |-> j]

\* the notes, when the image has bytes left
load_notes(st, img, sz, junk) ==
    IF st.i < sz
    THEN Bind(load_string(st, "notes", img, junk), LAMBDA nx :
              [nx EXCEPT !.puz.notes_sz = Sstrlen(Deref(nx.puz.notes))])
    ELSE st

\* the section loop; the result tells whether the loop ended by the break
\* that follows free(puz) (freed) and whether a reader returned 0, which
\* the loop reports with "Error reading ... section" (zero)
RECURSIVE load_sections(_, _, _, _, _)
load_sections(st, img, sz, didmalloc, junk) ==
    IF ~(st.i + 5 < sz) THEN [st |-> st, freed |-> FALSE, zero |-> FALSE]
    ELSE LET tag == bytes_at(img, st.i, 4, junk)
             section_sz == le_16(img, st.i + 4, junk)
             off == st.i + 6
         IN  IF tag \notin {<<71, 82, 66, 83>>, <<76, 84, 73, 77>>,
                            <<71, 69, 88, 84>>, <<82, 85, 83, 82>>}
             THEN Bind([st EXCEPT !.i = @ + 6 + section_sz + 1], LAMBDA nx :
                       load_sections(nx, img, sz, didmalloc, junk))
             ELSE Bind(CASE tag = <<71, 82, 66, 83>> -> load_grbs_bin(st, img, off, junk)
                         [] tag = <<76, 84, 73, 77>> ->
                                load_ltim_bin(st, img, off, section_sz, junk)
                         [] tag = <<71, 69, 88, 84>> -> load_gext_bin(st, img, off, junk)
                         [] tag = <<82, 85, 83, 82>> -> load_rusr_bin(st, img, off, junk),
                       LAMBDA r :
                         IF r.advance = 0 /\ didmalloc
                         THEN [st |-> Pos(r.puz, st.i, r.hi, r.run),
                               freed |-> TRUE, zero |-> TRUE]
                         ELSE Bind(load_sections(
                                       Pos(r.puz, st.i + 6 + r.advance, r.hi, r.run),
                                       img, sz, didmalloc, junk),
                                   LAMBDA rest :
                                     [rest EXCEPT !.zero = @ \/ r.advance = 0]))

\* puz_load_bin on an image of sz >= 0x34 bytes with at least one clue and
\* one square (no malloc(0)): the pointer it returns ("NULL" or "puz"), the
\* puzzle it wrote, the highest offset it read, whether it read a string
\* without end and whether a section reader returned 0
puz_load_bin(img, sz, didmalloc, junk) ==
    Bind(load_head(img, junk), LAMBDA s0 :
    Bind(load_board(s0, img, junk), LAMBDA s1 :
    Bind(load_string(s1, "title", img, junk), LAMBDA s2 :
    Bind(load_string(s2, "author", img, junk), LAMBDA s2a :
    Bind(load_string(s2a, "copyright", img, junk), LAMBDA s3 :
    Bind(load_clues([s3 EXCEPT !.puz.clues = Ptr(Fill(s3.puz.header.clue_count, NULL))],
                    0, img, sz, junk),
         LAMBDA c :
    IF c.j # c.st.puz.header.clue_count
    THEN [ret |-> "NULL", puz |-> c.st.puz, hi |-> c.st.hi, run |-> c.st.run,
          zero |-> FALSE]
    ELSE Bind(load_sections(Bind(load_notes(c.st, img, sz, junk), LAMBDA n :
                                 [n EXCEPT !.puz.grbs = NULL, !.puz.rtbl = NULL,
                                           !.puz.rtbl_sz = 0, !.puz.ltim = NULL,
                                           !.puz.gext = NULL, !.puz.rusr = NULL,
                                           !.puz.rusr_sz = 0]),
                            img, sz, didmalloc, junk),
              LAMBDA r :
                [ret |-> IF r.freed THEN "NULL" ELSE "puz",
                 puz |-> r.st.puz, hi |-> r.st.hi, run |-> r.st.run,
                 zero |-> r.zero])))))))

----------------------------------------------------------------------------
(* load.c: the text loader.  The cursor is an offset into the image img.  *)

PUZ_FILE_BINARY == 1

PUZ_FILE_TEXT == 2

PUZ_FILE_UNKNOWN == 4

isspace(c) == c \in {9, 10, 11, 12, 13, 32}

\* strnchr(img + b, n, c) - (img + b): the first of the n bytes that is c, else n
strnchr(img, b, n, c, junk) ==
    IF \E k \in 0 .. n - 1 : read_byte(img, b + k, junk) = c
    THEN CHOOSE k \in 0 .. n - 1 :
             /\ read_byte(img, b + k, junk) = c
             /\ \A m \in 0 .. k - 1 : read_byte(img, b + m, junk) # c
    ELSE n

\* the first loop of get_one_line: the offset at or after cur of the first
\* byte that is not blank, a line terminator not counting as blank
line_start(img, cur) ==
    IF \E k \in cur .. Len(img) - 1 : ~isspace(img[k + 1]) \/ img[k + 1] \in {13, 10}
    THEN CHOOSE k \in cur .. Len(img) - 1 :
             /\ ~isspace(img[k + 1]) \/ img[k + 1] \in {13, 10}
             /\ \A m \in cur .. k - 1 : isspace(img[m + 1]) /\ img[m + 1] \notin {13, 10}
    ELSE Max(cur, Len(img))

\* the second loop of get_one_line: d after stepping back over whitespace
line_last(img, b, end, junk) ==
    IF \E k \in b + 1 .. end : ~isspace(read_byte(img, k, junk))
    THEN CHOOSE k \in b + 1 .. end :
             /\ ~isspace(read_byte(img, k, junk))
             /\ \A m \in k + 1 .. end : isspace(read_byte(img, m, junk))
    ELSE Min(b, end)

\* get_one_line(&cursor, &remaining): the copy it returns, the cursor and
\* the count it leaves, the highest offset it read, and whether it cannot
\* return (blanks without end, or a copy of negative length)
get_one_line(img, cur, n, junk) ==
    LET b == line_start(img, cur)
        c == b + strnchr(img, b, n, 13, junk)
        d == b + strnchr(img, b, n, 10, junk)
        end == IF d = c + 1 THEN c
               ELSE IF c = d + 1 THEN c
               ELSE IF d = c THEN d
               ELSE Max(d, c)
        extra == IF d = c + 1 \/ c = d + 1 THEN 1 ELSE IF d = c THEN -1 ELSE 0
        last == line_last(img, b, end, junk)
    IN  [ line |-> bytes_at(img, b, last + 1 - b, junk) \o <<0>>,
          cursor |-> end + 1 + extra,
          remaining |-> n - (end + 1 + extra - cur),
          hi |-> Max(Max(b, end), b + Min(Max(c, d) - b, n - 1)),
          crash |-> \/ b >= Len(img) /\ isspace(junk) /\ junk \notin {13, 10}
                    \/ last + 1 - b < 0 ]

\* 0 when the strings agree up to the end of the shorter one, else -1
delim_memcmp(input, buf) ==
    IF \A i \in 1 .. Min(Sstrlen(input), Sstrlen(buf)) : input[i] = buf[i] THEN 0 ELSE -1

\* magics[k] of puz_load_text is magics[k + 1] here; magics[9] does not exist
magics ==
    << <<0>>,
       <<60, 65, 67, 82, 79, 83, 83, 32, 80, 85, 90, 90, 76, 69, 62, 0>>,
       <<60, 84, 73, 84, 76, 69, 62, 0>>,
       <<60, 65, 85, 84, 72, 79, 82, 62, 0>>,
       <<60, 67, 79, 80, 89, 82, 73, 71, 72, 84, 62, 0>>,
       <<60, 83, 73, 90, 69, 62, 0>>,
       <<60, 71, 82, 73, 68, 62, 0>>,
       <<60, 65, 67, 82, 79, 83, 83, 62, 0>>,
       <<60, 68, 79, 87, 78, 62, 0>> >>

STATE_SIZE == 5

STATE_CLUE0 == 7

STATE_FINAL == 9

\* the list is the sequence of its lines
line_append(list, line) == Append(list, line)

\* the lines one after the other and a NUL, which is written one byte past
\* the len bytes allocated
RECURSIVE line_concat(_, _)
line_concat(list, n) ==
    IF n = 0 THEN <<0>>
    ELSE CStr(line_concat(list, n - 1)) \o CStr(list[n]) \o <<0>>

mkgrid(soln) ==
    [i \in 1 .. Sstrlen(soln) + 1 |->
        IF i > Sstrlen(soln) THEN 0 ELSE IF soln[i] # 46 THEN 45 ELSE 46]

\* the digits of atoi from offset i on
RECURSIVE atoi_digits(_, _, _)
atoi_digits(s, i, acc) ==
    IF s[i + 1] \notin 48 .. 57 THEN acc
    ELSE atoi_digits(s, i + 1, 10 * acc + s[i + 1] - 48)

RECURSIVE atoi_from(_, _)
atoi_from(s, i) ==
    IF isspace(s[i + 1]) THEN atoi_from(s, i + 1)
    ELSE IF s[i + 1] = 45 THEN 0 - atoi_digits(s, i + 1, 0)
    ELSE IF s[i + 1] = 43 THEN atoi_digits(s, i + 1, 0)
    ELSE atoi_digits(s, i, 0)

Satoi(s) == atoi_from(s, 0)

\* the clue loop of the CLUE0 and CLUE1 cases: the first n lines become clues
RECURSIVE text_clues(_, _, _)
text_clues(p, list, n) ==
    IF n = 0 THEN p ELSE puz_clue_set(text_clues(p, list, n - 1), n - 1, list[n])

\* the size line has an 'x' for Sstrchr to find
size_has_x(list) == IndexOf(line_concat(list, Len(list)), 0, 120) # -1

\* the switch on the state that is left, on the lines gathered in it
state_exit(p, state, list) ==
    Bind(line_concat(list, Len(list)), LAMBDA val :
         CASE state \in {0, 1} -> p
           [] state = 2 -> puz_title_set(p, val)
           [] state = 3 -> puz_author_set(p, val)
           [] state = 4 -> puz_copyright_set(p, val)
           [] state = 5 ->
                LET b == IndexOf(val, 0, 120)
                IN  puz_height_set(
                        puz_width_set(p, Satoi(SubSeq(val, 1, b) \o <<0>>)),
                        Satoi(SubSeq(val, b + 2, Len(val))))
           [] state = 6 -> puz_grid_set(puz_solution_set(p, val), mkgrid(val))
           [] state \in {7, 8} ->
                text_clues(puz_clue_count_set(
                               IF p.clues = NULL THEN p ELSE puz_clear_clues(p),
                               Len(list)),
                           list, Len(list)))

\* one turn of the loop of puz_load_text in state L.state; stray is what the
\* comparison with magics[9] yields.  kind is "NULL" for return NULL,
\* "crash" for a turn that cannot complete and "loop" for the next turn; ub
\* tells that the turn read outside the image or wrote outside a buffer
text_step(L, p, img, junk, stray) ==
    Bind(get_one_line(img, L.cursor, L.remaining, junk), LAMBDA g :
    LET line == g.line
        at_end == g.remaining <= 0
        magic == line[1] = TEXT_SUBMAGIC
        cmp == IF L.state + 1 > 8 THEN stray ELSE delim_memcmp(line, magics[L.state + 2])
        state_d == at_end \/ magic
        list == IF at_end \/ ~magic THEN line_append(L.linelist, line) ELSE L.linelist
        oob == g.hi >= Len(img)
        nx == [L EXCEPT !.cursor = g.cursor, !.remaining = g.remaining, !.line = line]
    IN  IF g.crash THEN [kind |-> "crash", ub |-> TRUE]
        ELSE IF magic /\ cmp # 0
        THEN [kind |-> "NULL", ub |-> oob \/ L.state + 1 > 8, puz |-> p,
              locals |-> [nx EXCEPT !.linelist = list]]
        ELSE IF ~state_d
        THEN [kind |-> "loop", ub |-> oob, puz |-> p,
              locals |-> [nx EXCEPT !.linelist = list]]
        ELSE IF L.state = STATE_SIZE /\ ~size_has_x(list)
        THEN [kind |-> "crash", ub |-> TRUE]
        ELSE [kind |-> "loop", ub |-> TRUE, puz |-> state_exit(p, L.state, list),
              locals |-> [nx EXCEPT !.state = @ + 1,
                                    !.linelist = IF L.state = STATE_CLUE0 THEN list
                                                 ELSE << >>]])

\* the guess of puz_load
typeguess(img, junk) ==
    IF read_byte(img, 0, junk) # TEXT_SUBMAGIC \/ read_byte(img, 13, junk) = 0
    THEN PUZ_FILE_BINARY ELSE PUZ_FILE_TEXT

----------------------------------------------------------------------------
(* The loaders on sample images: a 2 x 1 puzzle with one clue in the       *)
(* binary format, with and without each section, cut short in places, and  *)
(* a text file with its delimiter lines altered                            *)

BinPlain ==
    <<0, 0, 65, 67, 82, 79, 83, 83, 38, 68, 79, 87, 78, 0, 0, 0, 0, 0,
      0, 0, 0, 0, 0, 0, 49, 46, 50, 0, 0, 0, 0, 0, 0, 0, 0, 0, 0, 0, 0,
      0, 0, 0, 0, 0, 2, 1, 1, 0, 1, 0, 0, 0, 65, 66, 45, 45, 84, 0, 0,
      67, 0, 99, 49, 0, 78, 0>>

BinNoNotes ==
    <<0, 0, 65, 67, 82, 79, 83, 83, 38, 68, 79, 87, 78, 0, 0, 0, 0, 0,
      0, 0, 0, 0, 0, 0, 49, 46, 50, 0, 0, 0, 0, 0, 0, 0, 0, 0, 0, 0, 0,
      0, 0, 0, 0, 0, 2, 1, 1, 0, 1, 0, 0, 0, 65, 66, 45, 45, 84, 0, 0,
      67, 0, 99, 49, 0>>

BinRebus ==
    <<0, 0, 65, 67, 82, 79, 83, 83, 38, 68, 79, 87, 78, 0, 0, 0, 0, 0,
      0, 0, 0, 0, 0, 0, 49, 46, 50, 0, 0, 0, 0, 0, 0, 0, 0, 0, 0, 0, 0,
      0, 0, 0, 0, 0, 2, 1, 1, 0, 1, 0, 0, 0, 65, 66, 45, 45, 84, 0, 0,
      67, 0, 99, 49, 0, 78, 0, 71, 82, 66, 83, 2, 0, 0, 0, 2, 0, 0, 82,
      84, 66, 76, 6, 0, 0, 0, 32, 49, 58, 88, 89, 59, 0>>

BinRebusNoTable ==
    <<0, 0, 65, 67, 82, 79, 83, 83, 38, 68, 79, 87, 78, 0, 0, 0, 0, 0,
      0, 0, 0, 0, 0, 0, 49, 46, 50, 0, 0, 0, 0, 0, 0, 0, 0, 0, 0, 0, 0,
      0, 0, 0, 0, 0, 2, 1, 1, 0, 1, 0, 0, 0, 65, 66, 45, 45, 84, 0, 0,
      67, 0, 99, 49, 0, 78, 0, 71, 82, 66, 83, 2, 0, 0, 0, 2, 0, 0>>

BinRebusNoTableTimer ==
    <<0, 0, 65, 67, 82, 79, 83, 83, 38, 68, 79, 87, 78, 0, 0, 0, 0, 0,
      0, 0, 0, 0, 0, 0, 49, 46, 50, 0, 0, 0, 0, 0, 0, 0, 0, 0, 0, 0, 0,
      0, 0, 0, 0, 0, 2, 1, 1, 0, 1, 0, 0, 0, 65, 66, 45, 45, 84, 0, 0,
      67, 0, 99, 49, 0, 78, 0, 71, 82, 66, 83, 2, 0, 0, 0, 2, 0, 0, 76,
      84, 73, 77, 3, 0, 0, 0, 49, 44, 48, 0>>

BinEmptyRebus ==
    <<0, 0, 65, 67, 82, 79, 83, 83, 38, 68, 79, 87, 78, 0, 0, 0, 0, 0,
      0, 0, 0, 0, 0, 0, 49, 46, 50, 0, 0, 0, 0, 0, 0, 0, 0, 0, 0, 0, 0,
      0, 0, 0, 0, 0, 2, 1, 1, 0, 1, 0, 0, 0, 65, 66, 45, 45, 84, 0, 0,
      67, 0, 99, 49, 0, 78, 0, 71, 82, 66, 83, 2, 0, 0, 0, 0, 0, 0>>

BinEmptyRebusTable ==
    <<0, 0, 65, 67, 82, 79, 83, 83, 38, 68, 79, 87, 78, 0, 0, 0, 0, 0,
      0, 0, 0, 0, 0, 0, 49, 46, 50, 0, 0, 0, 0, 0, 0, 0, 0, 0, 0, 0, 0,
      0, 0, 0, 0, 0, 2, 1, 1, 0, 1, 0, 0, 0, 65, 66, 45, 45, 84, 0, 0,
      67, 0, 99, 49, 0, 78, 0, 71, 82, 66, 83, 2, 0, 0, 0, 0, 0, 0, 82,
      84, 66, 76, 6, 0, 0, 0, 32, 49, 58, 88, 89, 59, 0, 71, 69, 88,
      84, 2, 0, 0, 0, 128, 0, 0>>

BinTimer ==
    <<0, 0, 65, 67, 82, 79, 83, 83, 38, 68, 79, 87, 78, 0, 0, 0, 0, 0,
      0, 0, 0, 0, 0, 0, 49, 46, 50, 0, 0, 0, 0, 0, 0, 0, 0, 0, 0, 0, 0,
      0, 0, 0, 0, 0, 2, 1, 1, 0, 1, 0, 0, 0, 65, 66, 45, 45, 84, 0, 0,
      67, 0, 99, 49, 0, 78, 0, 76, 84, 73, 77, 3, 0, 0, 0, 49, 44, 48,
      0>>

BinExtras ==
    <<0, 0, 65, 67, 82, 79, 83, 83, 38, 68, 79, 87, 78, 0, 0, 0, 0, 0,
      0, 0, 0, 0, 0, 0, 49, 46, 50, 0, 0, 0, 0, 0, 0, 0, 0, 0, 0, 0, 0,
      0, 0, 0, 0, 0, 2, 1, 1, 0, 1, 0, 0, 0, 65, 66, 45, 45, 84, 0, 0,
      67, 0, 99, 49, 0, 78, 0, 71, 69, 88, 84, 2, 0, 0, 0, 128, 0, 0>>

BinRusr ==
    <<0, 0, 65, 67, 82, 79, 83, 83, 38, 68, 79, 87, 78, 0, 0, 0, 0, 0,
      0, 0, 0, 0, 0, 0, 49, 46, 50, 0, 0, 0, 0, 0, 0, 0, 0, 0, 0, 0, 0,
      0, 0, 0, 0, 0, 2, 1, 1, 0, 1, 0, 0, 0, 65, 66, 45, 45, 84, 0, 0,
      67, 0, 99, 49, 0, 78, 0, 82, 85, 83, 82, 4, 0, 0, 0, 88, 89, 0,
      0, 0>>

BinUnknown ==
    <<0, 0, 65, 67, 82, 79, 83, 83, 38, 68, 79, 87, 78, 0, 0, 0, 0, 0,
      0, 0, 0, 0, 0, 0, 49, 46, 50, 0, 0, 0, 0, 0, 0, 0, 0, 0, 0, 0, 0,
      0, 0, 0, 0, 0, 2, 1, 1, 0, 1, 0, 0, 0, 65, 66, 45, 45, 84, 0, 0,
      67, 0, 99, 49, 0, 78, 0, 88, 88, 88, 88, 1, 0, 7, 0, 76, 84, 73,
      77, 3, 0, 0, 0, 49, 44, 48, 0>>

BinAll ==
    <<0, 0, 65, 67, 82, 79, 83, 83, 38, 68, 79, 87, 78, 0, 0, 0, 0, 0,
      0, 0, 0, 0, 0, 0, 49, 46, 50, 0, 0, 0, 0, 0, 0, 0, 0, 0, 0, 0, 0,
      0, 0, 0, 0, 0, 2, 1, 1, 0, 1, 0, 0, 0, 65, 66, 45, 45, 84, 0, 0,
      67, 0, 99, 49, 0, 78, 0, 76, 84, 73, 77, 3, 0, 0, 0, 49, 44, 48,
      0, 71, 69, 88, 84, 2, 0, 0, 0, 128, 0, 0, 71, 82, 66, 83, 2, 0,
      0, 0, 2, 0, 0, 82, 84, 66, 76, 6, 0, 0, 0, 32, 49, 58, 88, 89,
      59, 0, 82, 85, 83, 82, 4, 0, 0, 0, 88, 89, 0, 0, 0>>

BinShortHead ==
    <<0, 0, 65, 67, 82, 79, 83, 83, 38, 68, 79, 87, 78, 0, 0, 0, 0, 0,
      0, 0, 0, 0, 0, 0, 49, 46, 50, 0, 0, 0, 0, 0, 0, 0, 0, 0, 0, 0, 0,
      0>>

BinFewClues ==
    <<0, 0, 65, 67, 82, 79, 83, 83, 38, 68, 79, 87, 78, 0, 0, 0, 0, 0,
      0, 0, 0, 0, 0, 0, 49, 46, 50, 0, 0, 0, 0, 0, 0, 0, 0, 0, 0, 0, 0,
      0, 0, 0, 0, 0, 2, 1, 2, 0, 1, 0, 0, 0, 65, 66, 45, 45, 84, 0, 0,
      67, 0, 99, 49, 0>>

BinCutTitle ==
    <<0, 0, 65, 67, 82, 79, 83, 83, 38, 68, 79, 87, 78, 0, 0, 0, 0, 0,
      0, 0, 0, 0, 0, 0, 49, 46, 50, 0, 0, 0, 0, 0, 0, 0, 0, 0, 0, 0, 0,
      0, 0, 0, 0, 0, 2, 1, 1, 0, 1, 0, 0, 0, 65, 66, 45, 45, 84>>

BinNulBoard ==
    <<0, 0, 65, 67, 82, 79, 83, 83, 38, 68, 79, 87, 78, 0, 0, 0, 0, 0,
      0, 0, 0, 0, 0, 0, 49, 46, 50, 0, 0, 0, 0, 0, 0, 0, 0, 0, 0, 0, 0,
      0, 0, 0, 0, 0, 2, 1, 1, 0, 1, 0, 0, 0, 65, 0, 45, 45, 84, 0, 0,
      67, 0, 99, 49, 0, 78, 0>>

TextGood ==
    <<60, 65, 67, 82, 79, 83, 83, 32, 80, 85, 90, 90, 76, 69, 62, 13,
      10, 60, 84, 73, 84, 76, 69, 62, 13, 10, 84, 13, 10, 60, 65, 85,
      84, 72, 79, 82, 62, 13, 10, 60, 67, 79, 80, 89, 82, 73, 71, 72,
      84, 62, 13, 10, 67, 13, 10, 60, 83, 73, 90, 69, 62, 13, 10, 50,
      120, 49, 13, 10, 60, 71, 82, 73, 68, 62, 13, 10, 65, 66, 13, 10,
      60, 65, 67, 82, 79, 83, 83, 62, 13, 10, 99, 49, 13, 10, 60, 68,
      79, 87, 78, 62, 13, 10, 99, 50, 13, 10>>

TextPrefix ==
    <<60, 65, 67, 82, 79, 83, 83, 32, 80, 85, 90, 90, 76, 69, 62, 13,
      10, 60, 13, 10, 84, 13, 10, 60, 65, 85, 84, 72, 79, 82, 62, 13,
      10, 60, 67, 79, 80, 89, 82, 73, 71, 72, 84, 62, 13, 10, 67, 13,
      10, 60, 83, 73, 90, 69, 62, 13, 10, 50, 120, 49, 13, 10, 60, 71,
      82, 73, 68, 62, 13, 10, 65, 66, 13, 10, 60, 65, 67, 82, 79, 83,
      83, 62, 13, 10, 99, 49, 13, 10, 60, 68, 79, 87, 78, 62, 13, 10,
      99, 50, 13, 10>>

TextExtra ==
    <<60, 65, 67, 82, 79, 83, 83, 32, 80, 85, 90, 90, 76, 69, 62, 13,
      10, 60, 84, 73, 84, 76, 69, 62, 120, 13, 10, 84, 13, 10, 60, 65,
      85, 84, 72, 79, 82, 62, 13, 10, 60, 67, 79, 80, 89, 82, 73, 71,
      72, 84, 62, 13, 10, 67, 13, 10, 60, 83, 73, 90, 69, 62, 13, 10,
      50, 120, 49, 13, 10, 60, 71, 82, 73, 68, 62, 13, 10, 65, 66, 13,
      10, 60, 65, 67, 82, 79, 83, 83, 62, 13, 10, 99, 49, 13, 10, 60,
      68, 79, 87, 78, 62, 13, 10, 99, 50, 13, 10>>

TextOther ==
    <<60, 65, 67, 82, 79, 83, 83, 32, 80, 85, 90, 90, 76, 69, 62, 13,
      10, 60, 65, 85, 84, 72, 79, 82, 62, 13, 10, 84, 13, 10, 60, 65,
      85, 84, 72, 79, 82, 62, 13, 10, 60, 67, 79, 80, 89, 82, 73, 71,
      72, 84, 62, 13, 10, 67, 13, 10, 60, 83, 73, 90, 69, 62, 13, 10,
      50, 120, 49, 13, 10, 60, 71, 82, 73, 68, 62, 13, 10, 65, 66, 13,
      10, 60, 65, 67, 82, 79, 83, 83, 62, 13, 10, 99, 49, 13, 10, 60,
      68, 79, 87, 78, 62, 13, 10, 99, 50, 13, 10>>

TextCut ==
    <<60, 65, 67, 82, 79, 83, 83, 32, 80, 85, 90, 90, 76, 69, 62, 13,
      10, 60, 84, 73, 84, 76, 69, 62, 13, 10, 84, 13, 10>>

TextNoEol ==
    <<60, 65, 67, 82, 79, 83, 83, 32, 80, 85, 90, 90, 76, 69, 62, 13,
      10, 60, 84, 73, 84, 76, 69, 62, 13, 10, 84, 13, 10, 60, 65, 85,
      84, 72, 79, 82, 62, 13, 10, 60, 67, 79, 80, 89, 82, 73, 71, 72,
      84, 62, 13, 10, 67, 13, 10, 60, 83, 73, 90, 69, 62, 13, 10, 50,
      120, 49, 13, 10, 60, 71, 82, 73, 68, 62, 13, 10, 65, 66, 13, 10,
      60, 65, 67, 82, 79, 83, 83, 62, 13, 10, 99, 49, 13, 10, 60, 68,
      79, 87, 78, 62, 13, 10, 99, 50>>

TextUnix ==
    <<60, 65, 67, 82, 79, 83, 83, 32, 80, 85, 90, 90, 76, 69, 62, 10,
      60, 84, 73, 84, 76, 69, 62, 10, 84, 10>>


TextBadSize ==
    <<60, 65, 67, 82, 79, 83, 83, 32, 80, 85, 90, 90, 76, 69, 62, 13,
      10, 60, 84, 73, 84, 76, 69, 62, 13, 10, 84, 13, 10, 60, 65, 85,
      84, 72, 79, 82, 62, 13, 10, 60, 67, 79, 80, 89, 82, 73, 71, 72,
      84, 62, 13, 10, 67, 13, 10, 60, 83, 73, 90, 69, 62, 13, 10, 50,
      49, 13, 10, 60, 71, 82, 73, 68, 62, 13, 10, 65, 66, 13, 10, 60,
      65, 67, 82, 79, 83, 83, 62, 13, 10, 99, 49, 13, 10, 60, 68, 79,
      87, 78, 62, 13, 10, 99, 50, 13, 10>>

\* a GRBS section of zero bytes with a GEXT section, and no RTBL, behind it
BinEmptyRebusExtras ==
    <<0, 0, 65, 67, 82, 79, 83, 83, 38, 68, 79, 87, 78, 0, 0, 0, 0, 0,
      0, 0, 0, 0, 0, 0, 49, 46, 50, 0, 0, 0, 0, 0, 0, 0, 0, 0, 0, 0, 0,
      0, 0, 0, 0, 0, 2, 1, 1, 0, 1, 0, 0, 0, 65, 66, 45, 45, 84, 0, 0,
      67, 0, 99, 49, 0, 78, 0, 71, 82, 66, 83, 2, 0, 0, 0, 0, 0, 0, 71,
      69, 88, 84, 2, 0, 0, 0, 128, 0, 0>>

BinFiles ==
    {BinPlain, BinEmptyRebusExtras, BinNoNotes, BinRebus, BinRebusNoTable,
     BinRebusNoTableTimer, BinEmptyRebus, BinEmptyRebusTable, BinTimer,
     BinExtras, BinRusr, BinUnknown, BinAll,
     BinShortHead, BinFewClues, BinCutTitle, BinNulBoard}

\* two lines in the <ACROSS> section, one in the <DOWN> section
TextClues ==
    <<60, 65, 67, 82, 79, 83, 83, 32, 80, 85, 90, 90, 76, 69, 62, 13,
      10, 60, 84, 73, 84, 76, 69, 62, 13, 10, 84, 13, 10, 60, 65, 85,
      84, 72, 79, 82, 62, 13, 10, 60, 67, 79, 80, 89, 82, 73, 71, 72,
      84, 62, 13, 10, 67, 13, 10, 60, 83, 73, 90, 69, 62, 13, 10, 50,
      120, 49, 13, 10, 60, 71, 82, 73, 68, 62, 13, 10, 65, 66, 13, 10,
      60, 65, 67, 82, 79, 83, 83, 62, 13, 10, 99, 49, 13, 10, 99, 51,
      13, 10, 60, 68, 79, 87, 78, 62, 13, 10, 99, 50, 13, 10>>

\* a complete file followed by a section the loader does not know
TextNotepad ==
    <<60, 65, 67, 82, 79, 83, 83, 32, 80, 85, 90, 90, 76, 69, 62, 13,
      10, 60, 84, 73, 84, 76, 69, 62, 13, 10, 84, 13, 10, 60, 65, 85,
      84, 72, 79, 82, 62, 13, 10, 60, 67, 79, 80, 89, 82, 73, 71, 72,
      84, 62, 13, 10, 67, 13, 10, 60, 83, 73, 90, 69, 62, 13, 10, 50,
      120, 49, 13, 10, 60, 71, 82, 73, 68, 62, 13, 10, 65, 66, 13, 10,
      60, 65, 67, 82, 79, 83, 83, 62, 13, 10, 99, 49, 13, 10, 60, 68,
      79, 87, 78, 62, 13, 10, 99, 50, 13, 10, 60, 78, 79, 84, 69, 80,
      65, 68, 62, 13, 10, 110, 13, 10>>

TextFiles ==
    {TextGood, TextPrefix, TextExtra, TextOther,
     TextCut, TextNoEol, TextUnix, TextBadSize, TextClues, TextNotepad}

TextTiny == <<60, 13, 10>>

LoadTypes == {PUZ_FILE_BINARY, PUZ_FILE_TEXT, PUZ_FILE_UNKNOWN}

\* bytes that memory outside a buffer may hold while a line is read
LineJunk == {0, 32, 60, 65}

\* the caller hands puz_load a puzzle of its own (supplied) or NULL
LoadInit ==
    /\ base \in BinFiles \cup TextFiles \cup {TextTiny}
    /\ arg \in [type : LoadTypes, supplied : BOOLEAN]
    /\ puz = puz_init
    /\ ret = NULL
    /\ out = << >>
    /\ op = "init"
    /\ prev = "init"
    /\ locals = [state |-> 0, cursor |-> 0, remaining |-> 0, linelist |-> << >>,
                 line |-> <<0>>, zero |-> FALSE]
    /\ fault = FALSE

\* puz_load up to the return of puz_load_bin or to the loop of puz_load_text
PuzLoad ==
    /\ op = "init"
    /\ \E junk \in JunkBytes :
         \/ /\ base[1] = TEXT_SUBMAGIC /\ Len(base) < 14
            /\ Crashes("puz_load")
            /\ UNCHANGED locals
         \/ IF arg.type # PUZ_FILE_UNKNOWN /\ arg.type # typeguess(base, junk)
            THEN Returns("puz_load", puz, NULL) /\ UNCHANGED locals
            ELSE IF typeguess(base, junk) = PUZ_FILE_BINARY
            THEN IF Len(base) < 52
                 THEN Returns("puz_load", puz, NULL) /\ UNCHANGED locals
                 ELSE \E r \in {puz_load_bin(base, Len(base), ~arg.supplied, junk)} :
                        \/ /\ r.hi >= Len(base)
                           /\ Crashes("puz_load")
                           /\ UNCHANGED locals
                        \/ /\ ~r.run
                           /\ Returns("puz_load",
                                      IF arg.supplied \/ r.ret # "NULL" THEN r.puz ELSE puz,
                                      IF r.ret = "NULL" THEN NULL ELSE Ptr(r.puz))
                           /\ locals' = [locals EXCEPT !.zero = r.zero]
            ELSE /\ ~fault
                 /\ puz' = puz_init
                 /\ op' = "puz_load_text"
                 /\ prev' = op
                 /\ locals' = [locals EXCEPT !.remaining = Len(base)]
                 /\ UNCHANGED <<base, arg, ret, out, fault>>

\* one turn of the loop of puz_load_text
TextStep ==
    /\ op = "puz_load_text"
    /\ ~fault
    /\ locals.state # STATE_FINAL
    /\ \E junk \in LineJunk, stray \in {0, -1} :
         \E r \in {text_step(locals, puz, base, junk, stray)} :
            \/ /\ r.ub
               /\ Crashes("puz_load_text")
               /\ UNCHANGED locals
            \/ /\ r.kind = "NULL"
               /\ Returns("puz_load", r.puz, NULL)
               /\ locals' = r.locals
            \/ /\ r.kind = "loop"
               /\ puz' = r.puz
               /\ locals' = r.locals
               /\ prev' = op
               /\ UNCHANGED <<op, base, arg, ret, out, fault>>

\* the end of puz_load_text: puz_cksums_calc, puz_cksums_commit, return puz
TextFinal ==
    /\ op = "puz_load_text"
    /\ locals.state = STATE_FINAL
    /\ UNCHANGED locals
    /\ IF CalcFaults(puz) THEN Crashes("puz_load_text")
       ELSE \E q \in {puz_cksums_calc(puz)} :
              \E c \in {cksums_commit_copy(q)} : Returns("puz_load", c, Ptr(c))

\* the caller checks the sums of the puzzle it got; it got no pointer to
\* released memory
LoadedCheck ==
    /\ op = "puz_load"
    /\ ret # NULL
    /\ ~locals.zero
    /\ UNCHANGED locals
    /\ IF CalcFaults(Deref(ret)) THEN Crashes("puz_cksums_check")
       ELSE \E q \in {puz_cksums_calc(Deref(ret))} :
                Returns("puz_cksums_check", q, cksums_check_retval(q))

LoadNext == PuzLoad \/ TextStep \/ TextFinal \/ LoadedCheck

SpecLoad == LoadInit /\ [][LoadNext]_vars

----------------------------------------------------------------------------
(* get_one_line on its own: every buffer of up to MaxLine bytes            *)

LineBytes == {97, 32, 13, 10}

LineInit ==
    /\ base \in SeqsUpTo(LineBytes, MaxLine) \ {<< >>}
    /\ locals = [cursor |-> 0, remaining |-> Len(base), from |-> 0]
    /\ puz = NULL
    /\ arg = 0
    /\ ret = 0
    /\ out = << >>
    /\ op = "init"
    /\ prev = "init"
    /\ fault = FALSE

\* the caller asks for the next line while bytes remain; from is where the
\* cursor was
GetOneLine ==
    /\ ~fault
    /\ locals.remaining > 0
    /\ \E junk \in LineJunk :
         \E g \in {get_one_line(base, locals.cursor, locals.remaining, junk)} :
            \/ /\ g.crash \/ g.hi >= Len(base)
               /\ Crashes("get_one_line")
               /\ UNCHANGED locals
            \/ /\ ~g.crash
               /\ out' = g.line
               /\ locals' = [cursor |-> g.cursor, remaining |-> g.remaining,
                             from |-> locals.cursor]
               /\ prev' = op
               /\ op' = "get_one_line"
               /\ UNCHANGED <<puz, base, arg, ret, fault>>

LineNext == GetOneLine

SpecLine == LineInit /\ [][LineNext]_vars

\* ---------------------------------------------------------------------------
\* The clue accessors called in any order on a fresh puzzle.  arg is the int
\* argument of the call (val or n), ret its return value.
\* ---------------------------------------------------------------------------
ClueCounts == {-1, 0, 1, 2, 65537}

ClueIndexes == -1 .. 3

\* what an out-of-bounds read of a pointer slot can yield
StrayPointers == {NULL, Freed}

\* clues[n] is a slot of the allocated array
clue_slot_ok(p, n) == p.clues # NULL /\ n >= 0 /\ n < Len(Deref(p.clues))

\* the argument check of puz_clue_get and puz_clue_set
clue_arg_bad(p, n) == n < 0 \/ n > p.header.clue_count

puz_clue_get(p, n) == IF clue_arg_bad(p, n) THEN NULL ELSE Deref(p.clues)[n + 1]

CluesInit ==
    /\ puz = puz_init
    /\ base = << >>
    /\ arg = 0
    /\ ret = 0
    /\ out = << >>
    /\ op = "init"
    /\ prev = "init"
    /\ locals = << >>
    /\ fault = FALSE

ClueCall(name, a, q, r) ==
    /\ ~fault
    /\ puz' = q
    /\ arg' = a
    /\ ret' = r
    /\ prev' = op
    /\ op' = name
    /\ UNCHANGED <<base, out, locals, fault>>

ClueCallCrashes(name, a) ==
    /\ ~fault
    /\ fault' = TRUE
    /\ arg' = a
    /\ prev' = op
    /\ op' = name
    /\ UNCHANGED <<puz, base, ret, out, locals>>

ClueCountSetTo ==
    \E val \in ClueCounts :
        IF puz_clue_count_set_ret(puz, val) = -1
        THEN ClueCall("puz_clue_count_set", val, puz, -1)
        ELSE ClueCall("puz_clue_count_set", val, puz_clue_count_set(puz, val), 0)

ClearAllClues ==
    IF puz_clear_clues_ret(puz) = -1
    THEN ClueCall("puz_clear_clues", 0, puz, -1)
    ELSE ClueCall("puz_clear_clues", 0, puz_clear_clues(puz), 0)

\* clues[n] outside the array: a NULL array faults, behind the array the read
\* yields whatever lies there
ClueGetAt ==
    \E n \in ClueIndexes :
        IF clue_arg_bad(puz, n) \/ clue_slot_ok(puz, n)
        THEN ClueCall("puz_clue_get", n, puz, puz_clue_get(puz, n))
        ELSE \/ ClueCallCrashes("puz_clue_get", n)
             \/ /\ puz.clues # NULL
                /\ \E stray \in StrayPointers : ClueCall("puz_clue_get", n, puz, stray)

\* free(clues[n]) and the store outside the array: a fault, or a store that
\* lands behind the array and leaves the slots alone
ClueSetAt ==
    \E n \in ClueIndexes :
        IF clue_arg_bad(puz, n)
        THEN ClueCall("puz_clue_set", n, puz, NULL)
        ELSE IF clue_slot_ok(puz, n)
        THEN ClueCall("puz_clue_set", n, puz_clue_set(puz, n, StrU), Ptr(Sstrdup(StrU)))
        ELSE \/ ClueCallCrashes("puz_clue_set", n)
             \/ /\ puz.clues # NULL
                /\ ClueCall("puz_clue_set", n, puz, Ptr(Sstrdup(StrU)))

CluesNext == ClueCountSetTo \/ ClearAllClues \/ ClueGetAt \/ ClueSetAt

SpecClues == CluesInit /\ [][CluesNext]_vars

\* ---------------------------------------------------------------------------
\* puz_lock_set, puz_unlock_solution and puz_brute_force_unlock called in any
\* order on a 2x2 puzzle whose solution is clear or scrambled with 1122
\* ---------------------------------------------------------------------------
FlagsClear ==
    puz_solution_set(puz_height_set(puz_width_set(puz_init, 2), 2), <<65, 67, 66, 68, 0>>)

FlagsPuzzles ==
    {FlagsClear, puz_solution_set(FlagsClear, Deref(lock_solution(FlagsClear, 1122).solution))}

\* unlocked, or locked with the checksum of the clear solution
FlagsCksums == {0, lock_solution(FlagsClear, 1122).header.scrambled_cksum}

FlagsCodes == {1011, 1122, 2222}

FlagsIdle == ~fault /\ op # "puz_brute_force_unlock loop"

FlagsInit ==
    /\ puz \in FlagsPuzzles
    /\ base = << >>
    /\ arg = 0
    /\ ret = 0
    /\ out = << >>
    /\ op = "init"
    /\ prev = "init"
    /\ locals = [code |-> 0]
    /\ fault = FALSE

FlagsLockSet ==
    /\ FlagsIdle
    /\ \E cksum \in FlagsCksums : Returns("puz_lock_set", puz_lock_set(puz, cksum), cksum)
    /\ UNCHANGED locals

FlagsUnlock == FlagsIdle /\ UnlockSolutionCall(FlagsCodes)

FlagsBruteForce == FlagsIdle /\ BruteForceEnterCall

FlagsNext ==
    \/ FlagsLockSet \/ FlagsUnlock \/ FlagsBruteForce
    \/ BruteForceStep \/ BruteForceFail

SpecFlags == FlagsInit /\ [][FlagsNext]_vars

\* ---------------------------------------------------------------------------
\* unscramble_string and unshift_string on a scrambled and on a shifted string.
\* base is the clear string t, arg the shift k, locals the inp handed to the
\* function, out what it wrote, ret what it returned.
\* ---------------------------------------------------------------------------
MaxStr == 4

StringLetters == {65, 66, 90}

StringsInit ==
    /\ base \in {t \in SeqsUpTo(StringLetters, MaxStr) : Len(t) >= 2}
    /\ arg \in 0 .. MaxStr + 1
    /\ puz = puz_init
    /\ ret = 0
    /\ out = << >>
    /\ op = "init"
    /\ prev = "init"
    /\ locals = << >>
    /\ fault = FALSE

UnscrambleString ==
    /\ op = "init"
    /\ locals' = scramble_string(base)
    /\ out' = unscramble_string(locals')
    /\ ret' = 0
    /\ op' = "unscramble_string"
    /\ prev' = op
    /\ UNCHANGED <<puz, base, arg, fault>>

\* the error return -1 of an unsigned short function
UnshiftString ==
    /\ op = "init"
    /\ locals' = shift_string(base, arg)
    /\ IF unshift_fails(locals', arg)
       THEN ret' = U16 - 1 /\ UNCHANGED out
       ELSE ret' = 0 /\ out' = unshift_string(locals', arg)
    /\ op' = "unshift_string"
    /\ prev' = op
    /\ UNCHANGED <<puz, base, arg, fault>>

StringsNext == UnscrambleString \/ UnshiftString

SpecStrings == StringsInit /\ [][StringsNext]_vars

\* ---------------------------------------------------------------------------
\* A binary load, then the caller changes the dimensions, the clue count or
\* the lock tag of the puzzle it got and calculates or commits the sums.  ret
\* keeps the pointer puz_load returned, puz is the struct behind it.
\* ---------------------------------------------------------------------------
CibInit ==
    /\ base \in BinFiles
    /\ arg \in [type : {PUZ_FILE_BINARY}, supplied : BOOLEAN]
    /\ puz = puz_init
    /\ ret = NULL
    /\ out = << >>
    /\ op = "init"
    /\ prev = "init"
    /\ locals = [state |-> 0, cursor |-> 0, remaining |-> 0, linelist |-> << >>,
                 line |-> <<0>>, zero |-> FALSE]
    /\ fault = FALSE

CibLoaded == ~fault /\ op # "init" /\ ret # NULL /\ ~locals.zero

CibStep(name, q) ==
    /\ puz' = q
    /\ op' = name
    /\ prev' = op
    /\ UNCHANGED <<base, arg, ret, out, locals, fault>>

\* the header changes a caller can make through the accessors
CibChanges(p) ==
    {puz_width_set(p, 1), puz_width_set(p, 3), puz_height_set(p, 1),
     puz_lock_set(p, 0), puz_lock_set(p, 4660)}
    \cup (IF puz_clear_clues_ret(p) = 0
          THEN {puz_clear_clues(p),
                set_clues(puz_clue_count_set(puz_clear_clues(p), 1), <<StrU>>, 0)}
          ELSE {})

CibChange ==
    /\ CibLoaded
    /\ op # "change"
    /\ \E q \in CibChanges(puz) : q # puz /\ CibStep("change", q)

CibCalc ==
    /\ CibLoaded
    /\ op \in {"puz_load", "change"}
    /\ IF CalcFaults(puz) THEN Crashes("puz_cksums_calc") /\ UNCHANGED locals
       ELSE CibStep("puz_cksums_calc", puz_cksums_calc(puz))

CibCommit ==
    /\ CibLoaded
    /\ op \in {"puz_load", "change"}
    /\ IF CalcFaults(puz) THEN Crashes("puz_cksums_commit") /\ UNCHANGED locals
       ELSE \E q \in {puz_cksums_calc(puz)} :
                CibStep("puz_cksums_commit", cksums_commit_copy(q))

CibNext == PuzLoad \/ CibChange \/ CibCalc \/ CibCommit

SpecCib == CibInit /\ [][CibNext]_vars

\* ---------------------------------------------------------------------------
\* puz_load on binary images cut at every size from the header on, and the
\* check of the sums of what was loaded
\* ---------------------------------------------------------------------------
\* three clues, notes and a GEXT section
BinThree ==
    <<0, 0, 65, 67, 82, 79, 83, 83, 38, 68, 79, 87, 78, 0, 0, 0, 0, 0,
      0, 0, 0, 0, 0, 0, 49, 46, 50, 0, 0, 0, 0, 0, 0, 0, 0, 0, 0, 0, 0,
      0, 0, 0, 0, 0, 2, 1, 3, 0, 1, 0, 0, 0, 65, 66, 45, 45, 84, 0, 0,
      67, 0, 99, 49, 0, 99, 50, 0, 99, 51, 0, 78, 0, 71, 69, 88, 84, 2,
      0, 0, 0, 128, 0, 0>>

ClipImages ==
    UNION {{SubSeq(f, 1, k) : k \in 52 .. Len(f)} : f \in {BinThree, BinRebus}}

ClipInit ==
    /\ base \in ClipImages
    /\ arg \in [type : {PUZ_FILE_BINARY}, supplied : BOOLEAN]
    /\ puz = puz_init
    /\ ret = NULL
    /\ out = << >>
    /\ op = "init"
    /\ prev = "init"
    /\ locals = [state |-> 0, cursor |-> 0, remaining |-> 0, linelist |-> << >>,
                 line |-> <<0>>, zero |-> FALSE]
    /\ fault = FALSE

ClipNext == PuzLoad \/ LoadedCheck

SpecClip == ClipInit /\ [][ClipNext]_vars

----------------------------------------------------------------------------
(* Claims on the checksum suite                                            *)

CksumsReturned ==
    /\ ~fault
    /\ op \in {"puz_cksums_calc", "puz_cksums_check", "puz_cksums_commit"}

\* a string piece: its characters and its NUL, or nothing when it is empty
PieceStrZ(ptr) == IF CStr(Deref(ptr)) = << >> THEN << >> ELSE CStr(Deref(ptr)) \o <<0>>

RECURSIVE PieceClues(_, _)
PieceClues(p, i) ==
    IF i > p.header.clue_count THEN << >>
    ELSE <<CStr(Deref(Deref(p.clues)[i]))>> \o PieceClues(p, i + 1)

StringPieces(p) ==
    <<PieceStrZ(p.title), PieceStrZ(p.author), PieceStrZ(p.copyright)>>
    \o PieceClues(p, 1) \o <<PieceStrZ(p.notes)>>

BoardPieces(p) ==
    IF bd_size(p) = 0 THEN << << >>, << >> >>
    ELSE <<SubSeq(Deref(p.solution), 1, bd_size(p)), SubSeq(Deref(p.grid), 1, bd_size(p))>>

\* the fold of rotate-and-sum over the first n pieces
RECURSIVE FoldPiecesTo(_, _, _)
FoldPiecesTo(pieces, n, acc) ==
    IF n = 0 THEN acc
    ELSE RotateAndSum(pieces[n], FoldPiecesTo(pieces, n - 1, acc))

FoldPieces(pieces, acc) == FoldPiecesTo(pieces, Len(pieces), acc)

CheckedFields(p) ==
    {"cksum_cib", "cksum_puz", "magic_10[0]", "magic_10[1]", "magic_10[2]", "magic_10[3]",
     "magic_14[0]", "magic_14[1]", "magic_14[2]", "magic_14[3]"}
    \cup (IF p.grbs # NULL THEN {"grbs_cksum", "rtbl_cksum"} ELSE {})
    \cup (IF p.ltim # NULL THEN {"ltim_cksum"} ELSE {})
    \cup (IF p.gext # NULL THEN {"gext_cksum"} ELSE {})
    \cup (IF p.rusr # NULL THEN {"rusr_cksum"} ELSE {})

FieldDiffers(p, f) ==
    CASE f = "cksum_cib" -> p.header.cksum_cib # p.calc_cksums[1]
      [] f = "cksum_puz" -> p.header.cksum_puz # p.calc_cksum_puzcib
      [] f = "magic_10[0]" -> p.header.magic_10[1] # p.calc_magic10[1]
      [] f = "magic_10[1]" -> p.header.magic_10[2] # p.calc_magic10[2]
      [] f = "magic_10[2]" -> p.header.magic_10[3] # p.calc_magic10[3]
      [] f = "magic_10[3]" -> p.header.magic_10[4] # p.calc_magic10[4]
      [] f = "magic_14[0]" -> p.header.magic_14[1] # p.calc_magic14[1]
      [] f = "magic_14[1]" -> p.header.magic_14[2] # p.calc_magic14[2]
      [] f = "magic_14[2]" -> p.header.magic_14[3] # p.calc_magic14[3]
      [] f = "magic_14[3]" -> p.header.magic_14[4] # p.calc_magic14[4]
      [] f = "grbs_cksum" -> p.grbs_cksum # p.calc_grbs_cksum
      [] f = "rtbl_cksum" -> p.rtbl_cksum # p.calc_rtbl_cksum
      [] f = "ltim_cksum" -> p.ltim_cksum # p.calc_ltim_cksum
      [] f = "gext_cksum" -> p.gext_cksum # p.calc_gext_cksum
      [] f = "rusr_cksum" -> p.rusr_cksum # p.calc_rusr_cksum

DifferingFields(p) == {f \in CheckedFields(p) : FieldDiffers(p, f)}

\* C3: puz_cksums_check returns the number of checked fields that differ from their
\* recomputed value: 0 right after puz_cksums_commit, non-zero when a field differs
C3_CheckCountsMismatches ==
    (~fault /\ op = "puz_cksums_check") =>
        /\ ret = Cardinality(DifferingFields(puz))
        /\ (DifferingFields(puz) # {}) => ret # 0
        /\ (prev = "puz_cksums_commit") => ret = 0

C3_Witness ==
    /\ ~fault
    /\ op = "puz_cksums_check"
    /\ prev = "puz_cksums_commit"
    /\ ret = 0
    /\ puz.grbs # NULL /\ puz.ltim # NULL /\ puz.gext # NULL /\ puz.rusr # NULL
    /\ puz.header.magic_14 # <<0, 0, 0, 0>>

----------------------------------------------------------------------------
(* Claims on the scrambler                                                 *)

UnlockReturned == ~fault /\ op = "puz_unlock_solution"

AllDigitsNonZero(code) == \A i \in 1 .. 4 : code_digits(code)[i] \in 1 .. 9

\* C5: a clear puzzle of letters locked with a code of digits 1..9 and unlocked with
\* the same code: the unlock returns 0, the solution is the original byte for
\* byte, and scrambled_tag and scrambled_cksum are 0
C5_LockUnlockRoundTrip ==
    (UnlockReturned /\ prev = "lock" /\ locals.code = arg /\ AllDigitsNonZero(arg)) =>
        /\ ret = 0
        /\ Deref(puz.solution) = base
        /\ puz.header.scrambled_tag = 0
        /\ puz.header.scrambled_cksum = 0

\* C6: formatted_solution returns the non-'.' cells in column-major order, cell
\* (x, y) taken at index y*W + x, each cell once, for every W and H; and
\* unformat_unlocked_sol writes a string back to the same cells in that order
C6_FormattedIsColumnMajor ==
    /\ (~fault /\ op = "formatted_solution") => out = canonical_solution(puz) \o <<0>>
    /\ (~fault /\ op = "unformat_unlocked_sol") => Deref(puz.solution) = base

\* the characters at odd offsets, then the characters at even offsets
RefUnscramble(t) ==
    [k \in 1 .. Len(t) \div 2 |-> t[2 * k]] \o [k \in 1 .. (Len(t) + 1) \div 2 |-> t[2 * k - 1]]

\* rotation to the right by k
RefUnshift(t, k) == [j \in 1 .. Len(t) |-> t[((j - 1 - k + Len(t)) % Len(t)) + 1]]

RefSubtract(t, digits) ==
    [j \in 1 .. Len(t) |->
        IF (t[j] - digits[((j - 1) % 4) + 1] + 256) % 256 < 65
        THEN (t[j] - digits[((j - 1) % 4) + 1] + 256 + 26) % 256
        ELSE (t[j] - digits[((j - 1) % 4) + 1] + 256) % 256]

\* unscramble, unshift by digit i, subtract, for i from the last digit to the first
RECURSIVE RefDecode(_, _, _)
RefDecode(t, digits, i) ==
    IF i = 0 THEN t
    ELSE Bind(RefSubtract(RefUnshift(RefUnscramble(t), digits[i]), digits),
              LAMBDA nx : RefDecode(nx, digits, i - 1))

\* the return value r of an unlock of p with a code whose digits are all 1..9, when
\* formatted_solution handed it the string s; short tells whether a digit above
\* the length of s is reported as -4
LockedReturn(p, code, s, r, short) ==
    IF short /\ \E i \in 1 .. 4 : code_digits(code)[i] > Len(s) THEN r = -4
    ELSE IF \E i \in 1 .. 4 : code_digits(code)[i] > Len(s) THEN r \in {0, 2}
    ELSE IF RotateAndSum(RefDecode(s, code_digits(code), 4), 0) # p.header.scrambled_cksum
    THEN r = 2
    ELSE r = 0

UnlockReturn(p, code, r, short) ==
    IF p.header.scrambled_tag = 0 THEN r = 1
    ELSE IF ~AllDigitsNonZero(code) THEN r < 0
    ELSE \E junk \in JunkBytes :
             LockedReturn(p, code, CStr(formatted_solution(p, junk)), r, short)

BruteForceReturned == ~fault /\ op = "puz_brute_force_unlock"

\* no code from lo to hi unlocks p
NoneUnlocks(p, lo, hi) ==
    \A code \in lo .. hi : \E junk \in JunkBytes : puz_unlock_solution(p, code, junk).ret # 0

----------------------------------------------------------------------------
(* Claims on the loaders                                                   *)

\* C4: whenever a section reader reports zero bytes consumed during a binary
\* load, puz_load returns the error result (NULL), both when the loader
\* allocated the puzzle and when the caller supplied it
C4_ZeroAdvanceIsError ==
    (op = "puz_load" /\ ~fault /\ locals.zero) => ret = NULL

\* the line is the delimiter that ends state st, in full
IsDelimiter(line, st) ==
    st < 8 /\ line[1] = TEXT_SUBMAGIC /\ CStr(line) = CStr(magics[st + 2])

\* C9: a turn of the text loader stays in its state or moves to the next
\* one; it moves on only at the end of the input or on the next state's
\* delimiter in full, and on any other line that starts with '<' (here: one
\* read before the end of the input) puz_load returns the error result (NULL)
C9_StatesAndDelimiters ==
    [][(op = "puz_load_text" /\ locals.state # STATE_FINAL /\ ~fault')
          => /\ locals'.state \in {locals.state, locals.state + 1}
             /\ locals'.state = locals.state + 1
                   => \/ locals'.remaining <= 0
                      \/ IsDelimiter(locals'.line, locals.state)
             /\ (/\ locals'.line[1] = TEXT_SUBMAGIC
                 /\ locals'.remaining > 0
                 /\ ~IsDelimiter(locals'.line, locals.state))
                   => (op' = "puz_load" /\ ret' = NULL)]_vars

LineTerminators == {13, 10}

\* the offset of the first terminator at or after cur, which exists
RefTerminator(buf, cur) ==
    CHOOSE k \in cur .. Len(buf) - 1 :
        /\ buf[k + 1] \in LineTerminators
        /\ \A m \in cur .. k - 1 : buf[m + 1] \notin LineTerminators

\* the terminator at offset t is one byte, or the two bytes of \r\n or \n\r
RefTerminatorLen(buf, t) ==
    IF t + 1 < Len(buf) /\ buf[t + 2] \in LineTerminators /\ buf[t + 2] # buf[t + 1]
    THEN 2 ELSE 1

\* s without its leading and its trailing whitespace
RECURSIVE RefTrim(_)
RefTrim(s) ==
    IF s = << >> THEN s
    ELSE IF isspace(Head(s)) THEN RefTrim(Tail(s))
    ELSE IF isspace(s[Len(s)]) THEN RefTrim(SubSeq(s, 1, Len(s) - 1))
    ELSE s

\* C10: under each of the terminators \n, \r, \r\n and \n\r, get_one_line
\* returns the bytes from the cursor up to the first terminator, trimmed of
\* leading and trailing whitespace, and leaves the cursor and the remaining
\* count just past that one terminator
C10_LineUpToFirstTerminator ==
    (/\ op = "get_one_line"
     /\ ~fault
     /\ \E k \in locals.from .. Len(base) - 1 : base[k + 1] \in LineTerminators)
        => LET t == RefTerminator(base, locals.from)
           IN  /\ CStr(out) = RefTrim(SubSeq(base, locals.from + 1, t))
               /\ locals.cursor = t + RefTerminatorLen(base, t)
               /\ locals.remaining = Len(base) - locals.cursor

\* C11: every puzzle a successful puz_load returns has a solution and a grid
\* of exactly width * height bytes
C11_BoardLengths ==
    (op = "puz_load" /\ ~fault /\ ret # NULL)
        => /\ Sstrlen(Deref(Deref(ret).solution)) = bd_size(Deref(ret))
           /\ Sstrlen(Deref(Deref(ret).grid)) = bd_size(Deref(ret))

\* ---------------------------------------------------------------------------
\* Claims on the clue accessors
\* ---------------------------------------------------------------------------
clue_slots(p) == IF p.clues = NULL THEN 0 ELSE Len(Deref(p.clues))

\* C12: after any sequence of puz_clue_count_set, puz_clue_set and
\* puz_clear_clues the clue array has exactly clue_count slots;
\* puz_clue_count_set returns -1 and changes nothing while clue_count is
\* non-zero, and succeeds again after puz_clear_clues reset clue_count to 0
C12_SlotsMatchCount ==
    [][ /\ (~fault' => clue_slots(puz') = puz'.header.clue_count)
        /\ (op' = "puz_clue_count_set" /\ ~fault' /\ puz.header.clue_count # 0)
               => (ret' = -1 /\ puz' = puz)
        /\ (op' = "puz_clear_clues" /\ ~fault' /\ ret' = 0)
               => puz'.header.clue_count = 0
        /\ (op' = "puz_clue_count_set" /\ ~fault' /\ op = "puz_clear_clues" /\ ret = 0
                /\ arg' >= 0)
               => ret' = 0 ]_vars

\* C13: puz_clue_get and puz_clue_set return the error result and touch no
\* slot for every n < 0 and every n >= clue_count
C13_IndexBeyondCountIsError ==
    (op \in {"puz_clue_get", "puz_clue_set"}
        /\ (arg < 0 \/ arg >= puz.header.clue_count))
        => (~fault /\ ret = NULL)

\* ---------------------------------------------------------------------------
\* Claims on the lock flags
\* ---------------------------------------------------------------------------
\* C14: after any sequence of puz_lock_set, puz_unlock_solution and
\* puz_brute_force_unlock the header is either locked, with scrambled_tag 4
\* and a non-zero scrambled_cksum, or unlocked, with both fields 0
C14_LockedOrUnlocked ==
    \/ puz.header.scrambled_tag = 4 /\ puz.header.scrambled_cksum # 0
    \/ puz.header.scrambled_tag = 0 /\ puz.header.scrambled_cksum = 0

\* the brute force unlocked a puzzle that puz_lock_set had locked
C14_Witness ==
    /\ op = "puz_brute_force_unlock"
    /\ ~fault
    /\ ret >= 1111
    /\ puz.header.scrambled_tag = 0
    /\ puz.header.scrambled_cksum = 0

\* ---------------------------------------------------------------------------
\* Claims on the string steps of the scrambler
\* ---------------------------------------------------------------------------
\* C15: unscramble_string on the scrambled form of t returns t, for even and
\* odd lengths from 2; unshift_string with shift k on t with its first k
\* bytes moved to the end returns t for 0 <= k <= L and fails for k > L
C15_StringStepsInvert ==
    /\ op = "unscramble_string" => (ret = 0 /\ out = base)
    /\ op = "unshift_string"
           => IF arg <= Len(base) THEN ret = 0 /\ out = base ELSE ret # 0

\* a string of odd length with two different halves went through unscramble_string
C15_Witness ==
    /\ op = "unscramble_string"
    /\ Len(base) = 3
    /\ base[1] # base[2]
    /\ locals # base
    /\ out = base

\* ---------------------------------------------------------------------------
\* Claims on the checksum engine, continued
\* ---------------------------------------------------------------------------
\* C16: puz_cksum_region over a || b from iv equals puz_cksum_region over b
\* from puz_cksum_region over a from iv, for every split of the region
C16_RegionChains ==
    op = "puz_cksum_region" =>
        \A i \in 0 .. Len(base) :
            ret = puz_cksum_region(SubSeq(base, i + 1, Len(base)), Len(base) - i,
                                   puz_cksum_region(SubSeq(base, 1, i), i, arg))

\* a region with two non-empty parts and a non-zero initial value was summed
C16_Witness ==
    /\ op = "puz_cksum_region"
    /\ Len(base) = MaxLen
    /\ arg = 40503
    /\ base[1] # base[MaxLen]
    /\ ret # puz_cksum_region(SubSeq(base, 2, MaxLen), MaxLen - 1, arg)

\* the four sums the magic bytes are made of: CIB, solution, grid, secondary
RefMagicSums(p) ==
    << RotateAndSum(p.cib, 0),
       RotateAndSum(BoardPieces(p)[1], 0),
       RotateAndSum(BoardPieces(p)[2], 0),
       FoldPieces(StringPieces(p), 0) >>

RefCib(p) ==
    << p.header.width, p.header.height,
       p.header.clue_count % 256, p.header.clue_count \div 256,
       p.header.x_unk_30 % 256, p.header.x_unk_30 \div 256,
       p.header.scrambled_tag % 256, p.header.scrambled_tag \div 256 >>

\* C18: puz_cksums_calc rebuilds the CIB block from the current header and
\* calc_cksums[0] is its checksum from 0; a commit after a change of width,
\* height, clue count or lock tag stores the CIB checksum of the new values;
\* right after a binary load the rebuilt block is input bytes 0x2C..0x33
C18_CibRebuiltFromHeader ==
    (~fault /\ op \in {"puz_cksums_calc", "puz_cksums_commit"}) =>
        /\ puz.cib = RefCib(puz)
        /\ puz.calc_cksums[1] = RotateAndSum(RefCib(puz), 0)
        /\ op = "puz_cksums_commit" => puz.header.cksum_cib = RotateAndSum(RefCib(puz), 0)
        /\ prev = "puz_load" => puz.cib = SubSeq(base, 45, 52)

\* a commit after a change that gave the header another CIB block than the file's
C18_Witness ==
    /\ ~fault
    /\ op = "puz_cksums_commit"
    /\ prev = "change"
    /\ puz.cib # SubSeq(base, 45, 52)
    /\ puz.header.scrambled_tag = 4
    /\ puz.header.cksum_cib # RotateAndSum(SubSeq(base, 45, 52), 0)

\* ---------------------------------------------------------------------------
\* Claims on the text loader, continued
\* ---------------------------------------------------------------------------
\* the lines of a text file: the bytes between CR LF pairs
RefBreaks(bytes) == {i \in 1 .. Len(bytes) - 1 : bytes[i] = 13 /\ bytes[i + 1] = 10}

RefStarts(bytes) == {i \in {1} \cup {b + 2 : b \in RefBreaks(bytes)} : i <= Len(bytes)}

RefLineAt(bytes, start) ==
    IF \E b \in RefBreaks(bytes) : b >= start
    THEN SubSeq(bytes, start,
                (CHOOSE b \in RefBreaks(bytes) :
                    b >= start /\ \A c \in RefBreaks(bytes) : c >= start => b <= c) - 1)
    ELSE SubSeq(bytes, start, Len(bytes))

RefLines(bytes) ==
    [k \in 1 .. Cardinality(RefStarts(bytes)) |->
        RefLineAt(bytes, CHOOSE x \in RefStarts(bytes) :
                             Cardinality({y \in RefStarts(bytes) : y < x}) = k - 1)]

RefAcrossTag == <<60, 65, 67, 82, 79, 83, 83, 62>>

RefDownTag == <<60, 68, 79, 87, 78, 62>>

RefLineOf(lines, tag) ==
    IF \E i \in 1 .. Len(lines) : lines[i] = tag
    THEN CHOOSE i \in 1 .. Len(lines) : lines[i] = tag /\ \A j \in 1 .. i - 1 : lines[j] # tag
    ELSE 0

\* the file has an <ACROSS> section followed by a <DOWN> section
RefHasClueSections(bytes) ==
    /\ RefLineOf(RefLines(bytes), RefAcrossTag) > 0
    /\ RefLineOf(RefLines(bytes), RefDownTag) > RefLineOf(RefLines(bytes), RefAcrossTag)

\* the across lines, then the down lines, in file order
RefClueLines(bytes) ==
    LET lines == RefLines(bytes)
    IN  SubSeq(lines, RefLineOf(lines, RefAcrossTag) + 1, RefLineOf(lines, RefDownTag) - 1)
        \o SubSeq(lines, RefLineOf(lines, RefDownTag) + 1, Len(lines))

\* the clue strings of a puzzle, clue_count of them
ClueStrings(p) ==
    [i \in 1 .. p.header.clue_count |-> CStr(Deref(Deref(p.clues)[i]))]

RefSizeTag == <<60, 83, 73, 90, 69, 62>>

RefGridTag == <<60, 71, 82, 73, 68, 62>>

\* the file has a <SIZE> section closed by <GRID>
RefHasSizeSection(bytes) ==
    /\ RefLineOf(RefLines(bytes), RefSizeTag) > 0
    /\ RefLineOf(RefLines(bytes), RefGridTag) > RefLineOf(RefLines(bytes), RefSizeTag)

RECURSIVE RefConcat(_, _, _)
RefConcat(lines, from, to) ==
    IF from > to THEN << >> ELSE lines[from] \o RefConcat(lines, from + 1, to)

\* the lines between <SIZE> and <GRID>, one after the other
RefSizeBody(bytes) ==
    RefConcat(RefLines(bytes), RefLineOf(RefLines(bytes), RefSizeTag) + 1,
              RefLineOf(RefLines(bytes), RefGridTag) - 1)

RECURSIVE RefDecimal(_, _)
RefDecimal(digits, n) ==
    IF n = 0 THEN 0 ELSE 10 * RefDecimal(digits, n - 1) + digits[n] - 48

\* decimal digits, one 'x', decimal digits
RefIsWxH(body) ==
    \E k \in 2 .. Len(body) - 1 :
        /\ body[k] = 120
        /\ \A i \in (1 .. Len(body)) \ {k} : body[i] \in 48 .. 57

RefW(body) == RefDecimal(body, IndexOf(body \o <<0>>, 0, 120))

RefH(body) ==
    RefDecimal(SubSeq(body, IndexOf(body \o <<0>>, 0, 120) + 2, Len(body)),
               Len(body) - IndexOf(body \o <<0>>, 0, 120) - 1)

\* the step of puz_load_text that leaves the SIZE state, by any way out
LeavesSizeState ==
    /\ op = "puz_load_text"
    /\ ~fault
    /\ locals.state = STATE_SIZE
    /\ fault' \/ op' = "puz_load" \/ locals'.state # STATE_SIZE

\* C20: a <SIZE> body that is not WxH makes puz_load return the error
\* result, with no write through a missing position; a body WxH with decimal
\* W and H gives the puzzle width W and height H
C20_SizeIsParsedOrRejected ==
    [][ (LeavesSizeState /\ RefHasSizeSection(base))
        => IF RefIsWxH(RefSizeBody(base))
           THEN ~fault' =>
                    /\ puz'.header.width = RefW(RefSizeBody(base))
                    /\ puz'.header.height = RefH(RefSizeBody(base))
           ELSE /\ ~fault'
                /\ op' = "puz_load"
                /\ ret' = NULL ]_vars

\* ---------------------------------------------------------------------------
\* Claims on the binary loader, continued
\* ---------------------------------------------------------------------------
\* the offsets (from 1) where a section tag stands behind the header
RefTagAt(bytes, tag) == {i \in 53 .. Len(bytes) - 8 : SubSeq(bytes, i, i + 3) = tag}

RefGrbsTag == <<71, 82, 66, 83>>

RefRtblTag == <<82, 84, 66, 76>>

RefGextTag == <<71, 69, 88, 84>>

RefBoard(bytes) == bytes[45] * bytes[46]

\* the image has a GRBS section, each with a payload of zero bytes only
RefEmptyGrbs(bytes) ==
    /\ Len(bytes) >= 52
    /\ RefTagAt(bytes, RefGrbsTag) # {}
    /\ \A i \in RefTagAt(bytes, RefGrbsTag) :
          /\ i + 7 + RefBoard(bytes) <= Len(bytes)
          /\ \A k \in 1 .. RefBoard(bytes) : bytes[i + 7 + k] = 0

\* C21: a binary file whose GRBS section holds only zero bytes loads with
\* has_rebus false and no rebus table, with or without an RTBL section behind
\* it; that RTBL section is skipped and the sections after it are parsed
C21_EmptyRebusIsDropped ==
    (op = "puz_load" /\ ~fault /\ arg.type # PUZ_FILE_TEXT /\ RefEmptyGrbs(base))
        => /\ ret # NULL
           /\ ~puz_has_rebus(Deref(ret))
           /\ Deref(ret).rtbl = NULL
           /\ Deref(ret).rtbl_sz = 0
           /\ \A i \in RefTagAt(base, RefGextTag) :
                 /\ puz_has_extras(Deref(ret))
                 /\ Deref(Deref(ret).gext) = SubSeq(base, i + 8, i + 7 + RefBoard(base))

\* an empty GRBS, an RTBL behind it and a GEXT behind that were loaded
C21_Witness ==
    /\ op = "puz_load"
    /\ ~fault
    /\ RefEmptyGrbs(base)
    /\ RefTagAt(base, RefRtblTag) # {}
    /\ RefTagAt(base, RefGextTag) # {}
    /\ ret # NULL
    /\ Deref(ret).grbs = NULL
    /\ Deref(ret).gext # NULL

\* the strings an image holds behind the board: the NUL bytes there, and the
\* bytes left behind the last of them as one more
RefStringCount(bytes) ==
    Cardinality({i \in 53 + 2 * RefBoard(bytes) .. Len(bytes) : bytes[i] = 0})
    + (IF Len(bytes) > 52 + 2 * RefBoard(bytes) /\ bytes[Len(bytes)] # 0 THEN 1 ELSE 0)

RefClueCount(bytes) == bytes[47] + 256 * bytes[48]

\* title, author, copyright and fewer clues than the header announces
RefCluesExhausted(bytes) ==
    /\ Len(bytes) >= 52
    /\ RefClueCount(bytes) > 0
    /\ RefStringCount(bytes) < 3 + RefClueCount(bytes)

----------------------------------------------------------------------------
(* Claims on the rebus table checksum                                      *)

\* the entries of the rebus table, without their terminating NULs
RefEntries(p) ==
    IF p.rtbl_sz = 0 THEN << >>
    ELSE [i \in 1 .. p.rtbl_sz |-> CStr(Deref(Deref(p.rtbl)[i]))]

\* the entries, each one followed by ';'
RECURSIVE RefTerminated(_)
RefTerminated(entries) ==
    IF entries = << >> THEN << >>
    ELSE Head(entries) \o <<59>> \o RefTerminated(Tail(entries))

\* the entries with ';' between them and none behind the last
RefSeparated(entries) ==
    IF entries = << >> THEN << >>
    ELSE SubSeq(RefTerminated(entries), 1, Len(RefTerminated(entries)) - 1)

RefRotateSum(bytes) == puz_cksum_region(bytes, Len(bytes), 0)

CalcReturned == op \in {"puz_cksums_calc", "puz_cksums_check", "puz_cksums_commit"} /\ ~fault

\* C23 as amended: the computed checksum of the rebus table of a puzzle with
\* a rebus is the rotate-and-sum from 0 over the entries, every entry
\* followed by ';' (the last one too), without the terminating NUL
C23_RtblCksumCoversTerminatedEntries ==
    (CalcReturned /\ puz_has_rebus(puz)) =>
        puz.calc_rtbl_cksum = RefRotateSum(RefTerminated(RefEntries(puz)))

C23_Witness ==
    /\ CalcReturned
    /\ puz_has_rebus(puz)
    /\ puz.rtbl_sz = 2
    /\ puz.calc_rtbl_cksum # 0

\* C23 as stated: the checksum covers the entries joined by ';' with no ';'
\* behind the last entry
C23_RtblCksumCoversSeparatedEntries ==
    (CalcReturned /\ puz_has_rebus(puz)) =>
        puz.calc_rtbl_cksum = RefRotateSum(RefSeparated(RefEntries(puz)))

----------------------------------------------------------------------------
(* The user-rebus board of a loaded puzzle: a caller loads a binary file,  *)
(* sets or clears the board and calculates the sums                        *)

RusrEntries == {NULL, Ptr(<<0>>), Ptr(<<74, 0>>), Ptr(<<72, 73, 0>>)}

RusrInit ==
    /\ base \in {BinPlain, BinRusr, BinAll, BinExtras}
    /\ arg \in [type : {PUZ_FILE_BINARY}, supplied : BOOLEAN]
    /\ puz = puz_init
    /\ ret = NULL
    /\ out = << >>
    /\ op = "init"
    /\ prev = "init"
    /\ locals = [state |-> 0, cursor |-> 0, remaining |-> 0, linelist |-> << >>,
                 line |-> <<0>>, zero |-> FALSE]
    /\ fault = FALSE

RusrLoadedSet ==
    /\ CibLoaded
    /\ op \in {"puz_load", "puz_clear_rusr", "puz_cksums_calc"}
    /\ \E val \in [1 .. bd_size(puz) -> RusrEntries] :
           CibStep("puz_rusr_set", puz_rusr_set(puz, val))

RusrLoadedClear ==
    /\ CibLoaded
    /\ op \in {"puz_load", "puz_rusr_set"}
    /\ puz.rusr # NULL
    /\ CibStep("puz_clear_rusr", puz_clear_rusr(puz))

RusrLoadedCalc ==
    /\ CibLoaded
    /\ op \in {"puz_load", "puz_rusr_set", "puz_clear_rusr"}
    /\ IF CalcFaults(puz) THEN Crashes("puz_cksums_calc") /\ UNCHANGED locals
       ELSE CibStep("puz_cksums_calc", puz_cksums_calc(puz))

RusrNext == PuzLoad \/ RusrLoadedSet \/ RusrLoadedClear \/ RusrLoadedCalc

SpecRusr == RusrInit /\ [][RusrNext]_vars

\* the lengths of the entries of a board of pointers, 0 for an absent one
RefEntryLen(board, j) == IF board[j] = NULL THEN 0 ELSE Len(Deref(board[j])) - 1

RECURSIVE RefSum(_, _)
RefSum(f, n) == IF n = 0 THEN 0 ELSE f[n] + RefSum(f, n - 1)

RefRusrSize(p) ==
    bd_size(p) + RefSum([j \in 1 .. bd_size(p) |-> RefEntryLen(Deref(p.rusr), j)], bd_size(p))

\* C24: while the user-rebus board is present rusr_sz is the number of
\* squares plus the lengths of the entries, which is the number of bytes
\* puz_rusrstr_get writes and the number the RUSR checksum covers; while it
\* is absent rusr_sz is 0 and puz_has_rusr is false
C24_RusrSizeIsPayloadSize ==
    (CibLoaded /\ op \in {"puz_load", "puz_rusr_set", "puz_clear_rusr", "puz_cksums_calc"}) =>
        IF puz.rusr # NULL
        THEN /\ puz_has_rusr(puz)
             /\ puz.rusr_sz = RefRusrSize(puz)
             /\ Len(puz_rusrstr_get(puz)) = puz.rusr_sz
             /\ op = "puz_cksums_calc" =>
                    puz.calc_rusr_cksum = RefRotateSum(puz_rusrstr_get(puz))
        ELSE puz.rusr_sz = 0 /\ ~puz_has_rusr(puz)

C24_Witness ==
    /\ CibLoaded
    /\ op = "puz_cksums_calc"
    /\ prev = "puz_rusr_set"
    /\ puz.rusr # NULL
    /\ NULL \in {Deref(puz.rusr)[j] : j \in 1 .. bd_size(puz)}
    /\ puz.rusr_sz = bd_size(puz) + 2

----------------------------------------------------------------------------
(* puz_size and the accessors of the rebus table                           *)

\* the argument check of puz_rtbl_get
rtbl_get_bad(p, n) == n < 0 \/ ~puz_has_rebus(p) \/ n > p.rtbl_sz

\* reading rtbl[n] stays inside the table
rtbl_slot_ok(p, n) == p.rtbl # NULL /\ n >= 0 /\ n < Len(Deref(p.rtbl))

puz_rtbl_get(p, n) == IF rtbl_get_bad(p, n) THEN NULL ELSE Deref(p.rtbl)[n + 1]

\* the sum of Sstrlen + 1 over the clues or the table entries from i below count
RECURSIVE size_strings(_, _, _, _)
size_strings(p, of, i, count) ==
    IF i >= count THEN 0
    ELSE Sstrlen(Deref(IF of = "clue" THEN puz_clue_get(p, i) ELSE puz_rtbl_get(p, i))) + 1
             + size_strings(p, of, i + 1, count)

\* a size that leaves out the NUL behind the RTBL payload
puz_size_short_rtbl(p) ==
    LET board_size == puz_width_get(p) * puz_height_get(p)
    IN  52 + board_size + board_size
        + Sstrlen(Deref(p.title)) + 1
        + Sstrlen(Deref(p.author)) + 1
        + Sstrlen(Deref(p.copyright)) + 1
        + size_strings(p, "clue", 0, p.header.clue_count)
        + (IF p.notes_sz # 0 THEN p.notes_sz ELSE 0) + 1
        + (IF puz_has_rebus(p)
           THEN 4 + 2 + 2 + board_size + 1 + 4 + 2 + 2
                + size_strings(p, "rtbl", 0, puz_rebus_count_get(p))
           ELSE 0)
        + (IF puz_has_timer(p) THEN 4 + 4 + Sstrlen(Deref(p.ltim)) + 1 ELSE 0)
        + (IF puz_has_extras(p) THEN 4 + 2 + 2 + board_size + 1 ELSE 0)
        + (IF puz_has_rusr(p) THEN 4 + 2 + 2 + p.rusr_sz + 1 ELSE 0)

puz_size(p) ==
    LET board_size == puz_width_get(p) * puz_height_get(p)
    IN  52 + board_size + board_size
        + Sstrlen(Deref(p.title)) + 1
        + Sstrlen(Deref(p.author)) + 1
        + Sstrlen(Deref(p.copyright)) + 1
        + size_strings(p, "clue", 0, p.header.clue_count)
        + (IF p.notes_sz # 0 THEN p.notes_sz ELSE 0) + 1
        + (IF puz_has_rebus(p)
           THEN 4 + 2 + 2 + board_size + 1 + 4 + 2 + 2
                + size_strings(p, "rtbl", 0, puz_rebus_count_get(p)) + 1
           ELSE 0)
        + (IF puz_has_timer(p) THEN 4 + 4 + Sstrlen(Deref(p.ltim)) + 1 ELSE 0)
        + (IF puz_has_extras(p) THEN 4 + 2 + 2 + board_size + 1 ELSE 0)
        + (IF puz_has_rusr(p) THEN 4 + 2 + 2 + p.rusr_sz + 1 ELSE 0)

\* puz_size takes the length of these strings; one of them invalid is a crash
SizeFaults(p) ==
    ~ /\ CanStrlen(p.title) /\ CanStrlen(p.author) /\ CanStrlen(p.copyright)
      /\ p.header.clue_count <= 0 \/
            /\ p.clues # NULL
            /\ p.header.clue_count <= Len(Deref(p.clues))
            /\ \A i \in 1 .. p.header.clue_count : CanStrlen(Deref(p.clues)[i])
      /\ puz_has_rebus(p) => CanRtblstr(p)
      /\ puz_has_timer(p) => CanStrlen(p.ltim)

SizeCall ==
    /\ op # "puz_size"
    /\ UNCHANGED locals
    /\ IF SizeFaults(puz) THEN Crashes("puz_size")
       ELSE Returns("puz_size", puz, puz_size(puz))

SizeNext ==
    \/ SizeCall
    \/ TitleSet \/ AuthorSet \/ CopyrightSet \/ NotesSet \/ ClueSet
    \/ SolutionSet \/ GridSet \/ LockSet
    \/ RebusSet \/ RtblstrSet \/ ClearRtbl \/ TimerSet \/ ExtrasSet \/ RusrSet \/ ClearRusr

SpecSize == CksumsInit /\ [][SizeNext]_vars

\* the length of a string field, without its NUL
RefLen(ptr) == Len(CStr(Deref(ptr)))

RefFrame(present, payload) == IF present THEN 4 + 2 + 2 + payload + 1 ELSE 0

RefNotesLen(p) == IF p.notes = NULL THEN 0 ELSE RefLen(p.notes)

\* C25: puz_size is the header, two boards, the three strings, the clues and
\* the notes with their NULs, and a frame of 4 + 2 + 2 + payload + 1 bytes
\* for each present section, RTBL being present with GRBS
C25_SizeIsSerializedLength ==
    (op = "puz_size" /\ ~fault) =>
        ret = 52 + 2 * (puz.header.width * puz.header.height)
              + (RefLen(puz.title) + 1) + (RefLen(puz.author) + 1)
              + (RefLen(puz.copyright) + 1)
              + RefSum([i \in 1 .. puz.header.clue_count |->
                           RefLen(Deref(puz.clues)[i]) + 1], puz.header.clue_count)
              + RefNotesLen(puz) + 1
              + RefFrame(puz.grbs # NULL, puz.header.width * puz.header.height)
              + RefFrame(puz.grbs # NULL, Len(RefTerminated(RefEntries(puz))))
              + RefFrame(puz.ltim # NULL, IF puz.ltim # NULL THEN RefLen(puz.ltim) ELSE 0)
              + RefFrame(puz.gext # NULL, puz.header.width * puz.header.height)
              + RefFrame(puz.rusr # NULL, puz.rusr_sz)

C25_Witness ==
    /\ op = "puz_size" /\ ~fault
    /\ puz.grbs # NULL /\ puz.ltim # NULL /\ puz.gext # NULL /\ puz.rusr # NULL
    /\ puz.rtbl_sz = 2
    /\ puz.header.clue_count = 1
    /\ ret > 100

\* ---------------------------------------------------------------------------
\* puz_rtbl_get and puz_rtbl_set called in any order on a puzzle with or
\* without rebus, with a table of 0, 1 or 2 entries and 0 to 2 clues.  arg is
\* the index n of the call, ret the pointer it returned.
\* ---------------------------------------------------------------------------
RtblIndexes == -1 .. 3

RtblTables == {<<49, 58, 65, 59, 0>>, <<49, 58, 65, 59, 50, 58, 66, 59, 0>>}

RtblPuzzles ==
    LET plain == {Populate(StrT, StrEmpty, StrC, StrEmpty, k) : k \in 0 .. Min(MaxClues, 2)}
        rebus == {puz_rebus_set(p, RebusSample) : p \in plain}
    IN  plain \cup rebus \cup {puz_rtblstr_set(p, t) : p \in plain \cup rebus, t \in RtblTables}

RtblInit ==
    /\ puz \in RtblPuzzles
    /\ base = << >>
    /\ arg = 0
    /\ ret = 0
    /\ out = << >>
    /\ op = "init"
    /\ prev = "init"
    /\ locals = << >>
    /\ fault = FALSE

\* the argument check of puz_rtbl_set
rtbl_set_bad(p, n) == n < 0 \/ n > p.header.clue_count

puz_rtbl_set(p, n, val) ==
    [p EXCEPT !.rtbl = Ptr([Deref(p.rtbl) EXCEPT ![n + 1] = Ptr(Sstrdup(val))])]

\* rtbl[n] outside the table: a NULL table faults, behind the table the read
\* yields whatever lies there
RtblGetAt ==
    \E n \in RtblIndexes :
        IF rtbl_get_bad(puz, n) \/ rtbl_slot_ok(puz, n)
        THEN ClueCall("puz_rtbl_get", n, puz, puz_rtbl_get(puz, n))
        ELSE \/ ClueCallCrashes("puz_rtbl_get", n)
             \/ /\ puz.rtbl # NULL
                /\ \E stray \in StrayPointers : ClueCall("puz_rtbl_get", n, puz, stray)

\* free(rtbl[n]) and the store outside the table: a fault, or a store that
\* lands behind the table and leaves the slots alone
RtblSetAt ==
    \E n \in RtblIndexes :
        IF rtbl_set_bad(puz, n)
        THEN ClueCall("puz_rtbl_set", n, puz, NULL)
        ELSE IF rtbl_slot_ok(puz, n)
        THEN ClueCall("puz_rtbl_set", n, puz_rtbl_set(puz, n, StrU), Ptr(Sstrdup(StrU)))
        ELSE \/ ClueCallCrashes("puz_rtbl_set", n)
             \/ /\ puz.rtbl # NULL
                /\ ClueCall("puz_rtbl_set", n, puz, Ptr(Sstrdup(StrU)))

RtblNext == RtblGetAt \/ RtblSetAt

SpecRtbl == RtblInit /\ [][RtblNext]_vars

\* C26: puz_rtbl_get and puz_rtbl_set return the error result for every
\* n < 0 and every n >= rtbl_sz, whatever clue_count is, and accept every n
\* in 0 .. rtbl_sz - 1 of a puzzle with a rebus
C26_IndexAgainstTableSize ==
    (op \in {"puz_rtbl_get", "puz_rtbl_set"}) =>
        IF arg < 0 \/ arg >= puz.rtbl_sz
        THEN ~fault /\ ret = NULL
        ELSE puz_has_rebus(puz) => (~fault /\ ret # NULL)

----------------------------------------------------------------------------
(* Claims on absent strings and on reads behind the input                  *)

\* C27: the checksum computation of a loaded puzzle completes when the notes
\* were never set: it would complete with empty notes, so it completes
C27_ChecksumsSkipAbsentNotes ==
    (op = "puz_cksums_check" /\ puz.notes = NULL
        /\ ~CalcFaults([puz EXCEPT !.notes = Ptr(<<0>>)])) => ~fault

\* the last string of the image (title .. notes) has no NUL inside the image
RefStringCut(bytes) ==
    /\ Len(bytes) > 52 + 2 * RefBoard(bytes)
    /\ bytes[Len(bytes)] # 0
    /\ RefStringCount(bytes) <= 3 + RefClueCount(bytes) + 1

\* C28: puz_load on a binary buffer reads no byte behind the buffer: the load
\* does not fault, and a buffer that ends inside a string gives the error
\* result
C28_NoReadBehindInput ==
    (op = "puz_load" /\ prev = "init" /\ arg.type = PUZ_FILE_BINARY) =>
        /\ ~fault
        /\ RefStringCut(base) => ret = NULL

\* C29: a line starting with '<' is compared with an entry of the table of
\* 9 delimiters: the state it is met in is at most CLUE0 (index state + 1
\* at most 8), so no such line is compared in state CLUE1
C29_DelimiterIndexInTable ==
    /\ (op = "puz_load" /\ prev = "puz_load_text" /\ ret = NULL
            /\ locals.line[1] = TEXT_SUBMAGIC)
           => locals.state + 1 <= 8
    /\ ~(op = "puz_load_text" /\ locals.state = STATE_FINAL
            /\ locals.line[1] = TEXT_SUBMAGIC)

----------------------------------------------------------------------------
(* Claims on what the unlock calls change                                  *)

\* solution, grid and the two lock fields of q are those of p
RefLockFrameKept(p, q) ==
    /\ q.solution = p.solution
    /\ q.grid = p.grid
    /\ q.header.scrambled_tag = p.header.scrambled_tag
    /\ q.header.scrambled_cksum = p.header.scrambled_cksum

\* q differs from p in cells of the solution that are not '.' and in the two
\* lock fields at most
RefOnlyUnlocked(p, q) ==
    /\ [q EXCEPT !.solution = p.solution,
                 !.header.scrambled_tag = p.header.scrambled_tag,
                 !.header.scrambled_cksum = p.header.scrambled_cksum] = p
    /\ Len(Deref(q.solution)) = Len(Deref(p.solution))
    /\ \A c \in 1 .. Len(Deref(p.solution)) :
           (c > bd_size(p) \/ Deref(p.solution)[c] = 46)
               => Deref(q.solution)[c] = Deref(p.solution)[c]

\* C30: a call of puz_unlock_solution that returns non-zero, a pass of the
\* loop of puz_brute_force_unlock that fails and a return of a negative
\* value by puz_brute_force_unlock leave solution, grid, scrambled_tag and
\* scrambled_cksum as they were; a successful return changes non-'.' cells
\* of the solution, scrambled_tag and scrambled_cksum only
C30_UnlockFrame ==
    [][ /\ (op' = "puz_unlock_solution" /\ ~fault')
            => IF ret' # 0 THEN RefLockFrameKept(puz, puz') ELSE RefOnlyUnlocked(puz, puz')
        /\ (op' = "puz_brute_force_unlock loop" /\ ~fault')
            => RefLockFrameKept(puz, puz')
        /\ (op' = "puz_brute_force_unlock" /\ ~fault')
            => IF ret' < 0 THEN RefLockFrameKept(puz, puz') ELSE RefOnlyUnlocked(puz, puz')
      ]_vars

\* a successful unlock of a board with a black square
C30_Witness ==
    /\ op = "puz_unlock_solution" /\ ~fault /\ ret = 0
    /\ puz.header.scrambled_tag = 0
    /\ 46 \in {Deref(puz.solution)[c] : c \in 1 .. bd_size(puz)}

====
